---- MODULE Spec2Model ----
(***************************************************************************)
(* Target registry, target selection and idle state of one Monster        *)
(* (monster.cpp) in a small world of other creatures.                     *)
(*                                                                         *)
(* The monster under study is Self.  The other creatures are the           *)
(* environment: they appear, move, lose health, are removed from the map   *)
(* and are finally destroyed (their weak references expire).               *)
(***************************************************************************)
EXTENDS Integers, Sequences, FiniteSets, TLC

VARIABLES
    creatures,   \* the world: id -> the creature's fields the monster reads
    mType,       \* the monster's template and ownership (read-only at runtime)
    monster,     \* the monster's own fields
    search,      \* the locals of the last searchTarget call
    now,         \* OTSYS_TIME(), in milliseconds
    tick         \* the inputs and locals of the last tick handler that ran

vars == << creatures, mType, monster, search, now, tick >>

----------------------------------------------------------------------------
(* Bounds of the model *)

\* health values are 0..MaxHealth
MaxHealth == 2
\* the monster sees positions at most ViewRange tiles away on each axis
ViewRange == 2
\* cap of the players-in-view counter
MaxCounter == 3

----------------------------------------------------------------------------
(* Identities, enumerations *)

Self == 0
Null == -1
Others == {1, 2, 3}
AllCreatures == Others \cup {Self}

FACTION_DEFAULT == 0
FACTION_PLAYER == 1
\* a faction that is neither the default nor the players'
FACTION_LION == FACTION_PLAYER + 1
Factions == {FACTION_DEFAULT, FACTION_PLAYER, FACTION_LION}

TARGETSEARCH_DEFAULT == "DEFAULT"
TARGETSEARCH_NEAREST == "NEAREST"
TARGETSEARCH_HP == "HP"
TARGETSEARCH_DAMAGE == "DAMAGE"
TARGETSEARCH_RANDOM == "RANDOM"
SearchTypes == {TARGETSEARCH_DEFAULT, TARGETSEARCH_NEAREST, TARGETSEARCH_HP,
                TARGETSEARCH_DAMAGE, TARGETSEARCH_RANDOM}

\* what a creature is: creature 1 is a player, 2 a wild monster of the
\* monster's own kind, 3 a monster summoned by player 1
isPlayer(c) == c = 1
isMonster(c) == c \in {Self, 2, 3}
masterOf(c) == IF c = 3 THEN 1 ELSE Null

\* the ways a creature can fail the first test of isTarget, and the player
\* states isOpponent and isTarget look at
Flags == {"none", "unattackable", "protected", "invisible", "ignored", "disconnected"}

Pos(x, y, z) == [x |-> x, y |-> y, z |-> z]
Origin == Pos(0, 0, 0)

Abs(n) == IF n < 0 THEN -n ELSE n
Max(a, b) == IF a > b THEN a ELSE b

getDistanceX(p, q) == Abs(p.x - q.x)
getDistanceZ(p, q) == Abs(p.z - q.z)
getDistanceY(p, q) == Abs(p.y - q.y)
\* std::max(getDistanceX, getDistanceY)
chebyshev(p, q) == Max(getDistanceX(p, q), getDistanceY(p, q))

Range(s) == {s[i] : i \in 1..Len(s)}

----------------------------------------------------------------------------
(* Queries on the monster and the world.  m is the monster's record, W the *)
(* world at the time of the call.                                          *)

getMaster(m) == mType.master
isSummon(m) == getMaster(m) # Null
isHostile(m) == mType.isHostile
getPosition(W) == W[Self].pos

\* the monster's faction is its master's when it has one
getFaction(m, W) == IF getMaster(m) # Null THEN W[getMaster(m)].faction ELSE mType.faction
isEnemyFaction(f) == f \in mType.enemyFactions

\* a weak reference can be locked while its creature has not been destroyed
lock(W, c) == c \in AllCreatures /\ W[c].life # "expired"
isRemoved(W, c) == W[c].life # "world"

canSee(W, p) ==
    /\ getDistanceX(getPosition(W), p) <= ViewRange
    /\ getDistanceY(getPosition(W), p) <= ViewRange

canSeeCreature(W, c) == W[c].flag # "invisible"

\* index of creature c in the target list, 0 when it is not there
getTargetIterator(m, W, c) ==
    LET hits == {i \in 1..Len(m.targetList) :
                    lock(W, m.targetList[i]) /\ m.targetList[i] = c}
    IN IF hits = {} THEN 0 ELSE CHOOSE i \in hits : \A j \in hits : i <= j

\* the creatures of the target list that still exist, in list order
getTargetList(m, W) == SelectSeq(m.targetList, LAMBDA e : lock(W, e))

isInSpawnLocation(W) ==
    IF ~mType.spawnMonster THEN TRUE
    ELSE getPosition(W) = mType.masterPos \/ mType.masterPos = Origin

isFriend(m, W, c) ==
    LET summonOfPlayer == isSummon(m) /\ isPlayer(getMaster(m))
        tmpPlayer == IF isPlayer(c) THEN c
                     ELSE IF masterOf(c) # Null /\ isPlayer(masterOf(c)) THEN masterOf(c)
                     ELSE Null
    IN IF summonOfPlayer /\ tmpPlayer # Null
              /\ (tmpPlayer = getMaster(m) \/ tmpPlayer \in mType.partners)
       THEN TRUE
       ELSE isMonster(c) /\ masterOf(c) = Null

isOpponent(m, W, c) ==
    IF c = Null THEN FALSE
    ELSE IF isSummon(m) /\ isPlayer(getMaster(m)) THEN c # getMaster(m)
    ELSE IF isPlayer(c) /\ W[c].flag = "ignored" THEN FALSE
    ELSE IF getFaction(m, W) # FACTION_DEFAULT
         THEN isEnemyFaction(W[c].faction) \/ W[c].faction = FACTION_PLAYER
    ELSE isPlayer(c) \/ (masterOf(c) # Null /\ isPlayer(masterOf(c)))

\* only called with a creature that exists
isTarget(m, W, c) ==
    IF \/ isRemoved(W, c)
       \/ W[c].flag = "unattackable"
       \/ W[c].flag = "protected"
       \/ ~canSeeCreature(W, c)
    THEN FALSE
    ELSE IF W[c].pos.z # getPosition(W).z THEN FALSE
    ELSE IF ~isSummon(m) /\ isPlayer(c) /\ W[c].flag = "disconnected" THEN FALSE
    ELSE IF ~isSummon(m) /\ getFaction(m, W) # FACTION_DEFAULT
         THEN isEnemyFaction(W[c].faction)
    ELSE TRUE

\* first attack spell with a range that reaches the target decides by line of sight
canUseAttack(m, W, pos, target) ==
    IF isHostile(m)
    THEN LET distance == chebyshev(pos, W[target].pos)
             reach == {i \in 1..Len(mType.attackSpells) :
                          mType.attackSpells[i].range # 0
                          /\ distance <= mType.attackSpells[i].range}
         IN IF reach = {} THEN FALSE ELSE W[target].sightClear
    ELSE TRUE

----------------------------------------------------------------------------
(* Operations on the monster.  Each takes the monster's record and returns *)
(* the record after the call; ret holds the call's return value and fault  *)
(* records that the call dereferenced a null reference.                    *)

Ret(m, b) == [m EXCEPT !.ret = b]
nullDeref(m) == [m EXCEPT !.fault = TRUE, !.ret = FALSE]

addFriend(m, W, c) ==
    IF c = Self THEN m
    ELSE IF c = Null THEN nullDeref(m)
    ELSE [m EXCEPT !.friendList = @ \cup {c}]

removeFriend(m, W, c) ==
    IF c = Null THEN nullDeref(m)
    ELSE [m EXCEPT !.friendList = {f \in @ : lock(W, f) /\ f # c}]

\* addTarget without the test for the monster itself
addTarget_noSelfTest(m, W, c, pushFront) ==
    IF c = Null THEN nullDeref(m)
    ELSE IF getTargetIterator(m, W, c) # 0 THEN Ret(m, FALSE)
    ELSE LET counted == getMaster(m) = Null /\ getFaction(m, W) # FACTION_DEFAULT /\ isPlayer(c)
         IN [m EXCEPT !.targetList = IF pushFront THEN << c >> \o @ ELSE Append(@, c),
                      !.totalPlayersOnScreen = IF counted THEN @ + 1 ELSE @,
                      !.ret = TRUE]

\* a null creature is dereferenced by the lookup in the target list
addTarget(m, W, c, pushFront) ==
    IF c = Self THEN Ret(m, FALSE)
    ELSE IF c = Null THEN nullDeref(m)
    ELSE IF getTargetIterator(m, W, c) # 0 THEN Ret(m, FALSE)
    ELSE LET counted == getMaster(m) = Null /\ getFaction(m, W) # FACTION_DEFAULT /\ isPlayer(c)
         IN [m EXCEPT !.targetList = IF pushFront THEN << c >> \o @ ELSE Append(@, c),
                      !.totalPlayersOnScreen = IF counted THEN @ + 1 ELSE @,
                      !.ret = TRUE]

\* removeTarget without the test for a creature that is not in the list
removeTarget_noMemberTest(m, W, c) ==
    IF c = Null THEN Ret(m, FALSE)
    ELSE LET it == getTargetIterator(m, W, c)
             counted == getMaster(m) = Null /\ getFaction(m, W) # FACTION_DEFAULT /\ isPlayer(c)
         IN [m EXCEPT !.targetList = SubSeq(@, 1, it - 1) \o SubSeq(@, it + 1, Len(@)),
                      !.totalPlayersOnScreen = IF counted THEN @ - 1 ELSE @,
                      !.ret = TRUE]

removeTarget(m, W, c) ==
    IF c = Null THEN Ret(m, FALSE)
    ELSE LET it == getTargetIterator(m, W, c)
             counted == getMaster(m) = Null /\ getFaction(m, W) # FACTION_DEFAULT /\ isPlayer(c)
         IN IF it = 0 THEN Ret(m, FALSE)
            ELSE [m EXCEPT !.targetList = SubSeq(@, 1, it - 1) \o SubSeq(@, it + 1, Len(@)),
                           !.totalPlayersOnScreen = IF counted THEN @ - 1 ELSE @,
                           !.ret = TRUE]

clearTargetList(m) == [m EXCEPT !.targetList = << >>]
clearFriendList(m) == [m EXCEPT !.friendList = {}]

\* Creature::onIdleStatus: a creature with health left forgets who damaged it
onIdleStatus(m, W) == IF W[Self].health > 0 THEN [m EXCEPT !.damageMap = << >>] ELSE m

\* setIdle that leaves the target list as it is on entering idle
setIdle_keepsTargets(m, W, idle) ==
    IF isRemoved(W, Self) \/ W[Self].health <= 0 THEN m
    ELSE IF ~idle THEN [m EXCEPT !.isIdle = FALSE, !.inCreatureCheck = TRUE]
    ELSE [clearFriendList(onIdleStatus(m, W))
             EXCEPT !.isIdle = TRUE, !.inCreatureCheck = FALSE]

setIdle(m, W, idle) ==
    IF isRemoved(W, Self) \/ W[Self].health <= 0 THEN m
    ELSE IF ~idle THEN [m EXCEPT !.isIdle = FALSE, !.inCreatureCheck = TRUE]
    ELSE [clearFriendList(clearTargetList(onIdleStatus(m, W)))
             EXCEPT !.isIdle = TRUE, !.inCreatureCheck = FALSE]

\* updateIdleStatus that makes the monster idle wherever it has no targets
updateIdleStatus_idleAnywhere(m, W) ==
    LET noTargets == ~isSummon(m) /\ m.targetList = << >>
        master == getMaster(m)
        idle == /\ ~m.conditions
                /\ IF noTargets THEN TRUE
                   ELSE /\ master # Null
                        /\ \/ ~isSummon(m) /\ m.totalPlayersOnScreen = 0
                           \/ /\ isSummon(m)
                              /\ isMonster(master)
                              /\ W[master].totalPlayersOnScreen = 0
                        /\ getFaction(m, W) # FACTION_DEFAULT
    IN setIdle(m, W, idle)

updateIdleStatus(m, W) ==
    LET noTargets == ~isSummon(m) /\ m.targetList = << >>
        master == getMaster(m)
        idle == /\ ~m.conditions
                /\ IF noTargets THEN isInSpawnLocation(W)
                   ELSE /\ master # Null
                        /\ \/ ~isSummon(m) /\ m.totalPlayersOnScreen = 0
                           \/ /\ isSummon(m)
                              /\ isMonster(master)
                              /\ W[master].totalPlayersOnScreen = 0
                        /\ getFaction(m, W) # FACTION_DEFAULT
        walkBack == ~m.conditions /\ noTargets /\ ~isInSpawnLocation(W)
    IN setIdle([m EXCEPT !.isWalkingBack = IF walkBack THEN TRUE ELSE @], W, idle)

\* onCreatureFound that leaves the idle status as it is
onCreatureFound_keepsIdle(m, W, c, pushFront) ==
    LET m1 == IF isFriend(m, W, c) THEN addFriend(m, W, c) ELSE m
    IN IF isOpponent(m1, W, c) THEN addTarget(m1, W, c, pushFront) ELSE m1

onCreatureFound(m, W, c, pushFront) ==
    LET m1 == IF isFriend(m, W, c) THEN addFriend(m, W, c) ELSE m
        m2 == IF isOpponent(m1, W, c) THEN addTarget(m1, W, c, pushFront) ELSE m1
    IN updateIdleStatus(m2, W)

onCreatureEnter(m, W, c) == onCreatureFound(m, W, c, TRUE)

onCreatureLeave(m, W, c) ==
    LET m1 == IF isFriend(m, W, c) THEN removeFriend(m, W, c) ELSE m
    IN IF isOpponent(m1, W, c)
       THEN LET m2 == removeTarget(m1, W, c)
            IN IF m2.targetList = << >> THEN updateIdleStatus(m2, W) ELSE m2
       ELSE m1

\* the creatures on the map around the monster, itself included
Spectators(W) == {c \in AllCreatures : W[c].life = "world"}

RECURSIVE scanSpectators(_, _, _)
scanSpectators(m, W, order) ==
    IF order = << >> THEN m
    ELSE LET spectator == Head(order)
             m1 == IF spectator # Self /\ canSee(W, W[spectator].pos)
                   THEN onCreatureFound(m, W, spectator, FALSE)
                   ELSE m
         IN scanSpectators(m1, W, Tail(order))

\* stale(e): the erase_if predicate of both lists
stale(W, e) == ~lock(W, e) \/ W[e].health <= 0 \/ ~canSee(W, W[e].pos)

updateTargetList(m, W, order) ==
    LET pruned == [m EXCEPT !.friendList = {f \in @ : ~stale(W, f)},
                            !.targetList = SelectSeq(@, LAMBDA e : ~stale(W, e))]
    IN scanSpectators(pruned, W, order)

----------------------------------------------------------------------------
(* Target selection *)

setAttackedCreature(m, W, c) == [m EXCEPT !.attackedCreature = c, !.ret = TRUE]

\* the follow assignment succeeds when the world lets the monster follow c
setFollowCreature(m, W, c) ==
    IF c = Null THEN [m EXCEPT !.followCreature = Null, !.ret = TRUE]
    ELSE IF W[c].followOk THEN [m EXCEPT !.followCreature = c, !.ret = TRUE]
    ELSE Ret(m, FALSE)

\* selectTarget without the test for membership in the target list
selectTarget_noMemberTest(m, W, c) ==
    IF c = Null THEN nullDeref(m)
    ELSE IF ~isTarget(m, W, c) THEN Ret(m, FALSE)
    ELSE LET m1 == IF isHostile(m) \/ isSummon(m) THEN setAttackedCreature(m, W, c) ELSE m
         IN setFollowCreature(m1, W, c)

selectTarget(m, W, c) ==
    IF c = Null THEN nullDeref(m)
    ELSE IF ~isTarget(m, W, c) THEN Ret(m, FALSE)
    ELSE IF getTargetIterator(m, W, c) = 0 THEN Ret(m, FALSE)
    ELSE LET m1 == IF isHostile(m) \/ isSummon(m) THEN setAttackedCreature(m, W, c) ELSE m
         IN setFollowCreature(m1, W, c)

\* the thresholds compared with >= instead of >
resolveSearchType_offByOne(searchType, rnd) ==
    IF searchType # TARGETSEARCH_DEFAULT THEN searchType
    ELSE LET sum1 == mType.strategiesTargetNearest
             sum2 == sum1 + mType.strategiesTargetHealth
             sum3 == sum2 + mType.strategiesTargetDamage
         IN IF rnd >= sum1
            THEN IF rnd >= sum2
                 THEN IF rnd >= sum3 THEN TARGETSEARCH_RANDOM ELSE TARGETSEARCH_DAMAGE
                 ELSE TARGETSEARCH_HP
            ELSE TARGETSEARCH_NEAREST

\* the strategy of searchTarget(DEFAULT) for the roll rnd
resolveSearchType(searchType, rnd) ==
    IF searchType # TARGETSEARCH_DEFAULT THEN searchType
    ELSE LET sum1 == mType.strategiesTargetNearest
             sum2 == sum1 + mType.strategiesTargetHealth
             sum3 == sum2 + mType.strategiesTargetDamage
         IN IF rnd > sum1
            THEN IF rnd > sum2
                 THEN IF rnd > sum3 THEN TARGETSEARCH_RANDOM ELSE TARGETSEARCH_DAMAGE
                 ELSE TARGETSEARCH_HP
            ELSE TARGETSEARCH_NEAREST

\* the candidates without the test for an attack that reaches them
resultList_noAttackTest(m, W) ==
    SelectSeq(m.targetList, LAMBDA e : lock(W, e) /\ isTarget(m, W, e))

\* the candidates: list entries that exist, are targets and can be attacked
resultList(m, W) ==
    SelectSeq(m.targetList,
              LAMBDA e : /\ lock(W, e)
                         /\ isTarget(m, W, e)
                         /\ \/ m.targetDistance = 1
                            \/ canUseAttack(m, W, getPosition(W), e))

RECURSIVE nearestLoop(_, _, _, _, _, _)
nearestLoop(W, rl, i, getTarget, minRange, factionOffset) ==
    IF i > Len(rl) THEN getTarget
    ELSE LET distance == chebyshev(getPosition(W), W[rl[i]].pos) + factionOffset
         IN IF distance < minRange
            THEN nearestLoop(W, rl, i + 1, rl[i], distance, factionOffset)
            ELSE nearestLoop(W, rl, i + 1, getTarget, minRange, factionOffset)

\* the nearest strategy without its loop over the later candidates
searchNearest_firstOnly(W, rl) == rl[1]

searchNearest(W, rl) ==
    nearestLoop(W, rl, 2, rl[1], chebyshev(getPosition(W), W[rl[1]].pos),
                W[rl[1]].faction * 100)

RECURSIVE hpLoop(_, _, _, _, _, _)
hpLoop(W, rl, i, getTarget, minHp, factionOffset) ==
    IF i > Len(rl) THEN getTarget
    ELSE LET hp == W[rl[i]].health + factionOffset
             nextOffset == W[rl[i]].faction * 100000
         IN IF hp < minHp
            THEN hpLoop(W, rl, i + 1, rl[i], hp, nextOffset)
            ELSE hpLoop(W, rl, i + 1, getTarget, minHp, nextOffset)

searchHP(W, rl) ==
    LET factionOffset == W[rl[1]].faction * 100000
    IN hpLoop(W, rl, 2, rl[1], W[rl[1]].health + factionOffset, factionOffset)

RECURSIVE damageLoop(_, _, _, _, _)
damageLoop(m, W, rl, i, acc) ==
    IF i > Len(rl) THEN acc.getTarget
    ELSE LET factionOffset == W[rl[i]].faction * 100000
             found == rl[i] \in DOMAIN m.damageMap
         IN IF found /\ m.damageMap[rl[i]] + factionOffset > acc.mostDamage
            THEN damageLoop(m, W, rl, i + 1,
                            [getTarget |-> rl[i], mostDamage |-> m.damageMap[rl[i]]])
            ELSE damageLoop(m, W, rl, i + 1, acc)

searchDamage(m, W, rl) ==
    damageLoop(m, W, rl, 2, [getTarget |-> rl[1], mostDamage |-> 0])

\* the candidate the strategy passes to selectTarget; idx is the random draw
strategyTarget(m, W, type, rl, idx) ==
    CASE type = TARGETSEARCH_NEAREST -> searchNearest(W, rl)
      [] type = TARGETSEARCH_HP -> searchHP(W, rl)
      [] type = TARGETSEARCH_DAMAGE -> searchDamage(m, W, rl)
      [] OTHER -> rl[(idx % Len(rl)) + 1]

\* std::ranges::any_of(getTargetList(), selectTarget)
RECURSIVE selectFirst(_, _, _)
selectFirst(m, W, list) ==
    IF list = << >> THEN Ret(m, FALSE)
    ELSE LET r == selectTarget(m, W, Head(list))
         IN IF r.ret THEN r ELSE selectFirst(r, W, Tail(list))

\* the switch of searchTarget: the strategy's candidate is passed to selectTarget
selectStrategyTarget(m, W, type, rl, idx) ==
    selectTarget(m, W, strategyTarget(m, W, type, rl, idx))

searchTarget(m, W, searchType, rnd, idx) ==
    LET type == resolveSearchType(searchType, rnd)
        rl == resultList(m, W)
    IN IF rl = << >> THEN Ret(m, FALSE)
       ELSE LET r == selectStrategyTarget(m, W, type, rl, idx)
            IN IF type = TARGETSEARCH_RANDOM \/ r.ret THEN r
               ELSE selectFirst(r, W, getTargetList(r, W))

\* hasFollowPath: the result of the path search that has just completed
onFollowCreatureComplete(m, W, c, hasFollowPath) ==
    LET r == removeTarget(m, W, c)
    IN IF r.ret /\ (hasFollowPath \/ ~isSummon(m))
       THEN addTarget(r, W, c, hasFollowPath)
       ELSE r

challengeCreature(m, W, c, targetChangeCooldown) ==
    IF isSummon(m) THEN Ret(m, FALSE)
    ELSE LET r == selectTarget(m, W, c)
         IN IF r.ret
            THEN [r EXCEPT !.challengeFocusDuration = targetChangeCooldown,
                           !.targetChangeTicks = 0]
            ELSE r

----------------------------------------------------------------------------
(* States *)

SpawnPos == Pos(1, 1, 0)
OffSpawnPos == Pos(2, 1, 0)
\* seen from both positions of the monster
NearPos == Pos(2, 2, 0)
\* seen from OffSpawnPos only
EdgePos == Pos(ViewRange + 2, 1, 0)

\* a destroyed creature has no fields left: one record stands for it
Expired ==
    [life |-> "expired", health |-> 0, pos |-> Origin, faction |-> FACTION_DEFAULT,
     flag |-> "none", followOk |-> FALSE, sightClear |-> FALSE,
     totalPlayersOnScreen |-> 0, master |-> Null, attackedCreature |-> Null]

Creature(p, h, f) ==
    [life |-> "world", health |-> h, pos |-> p, faction |-> f,
     flag |-> "none", followOk |-> TRUE, sightClear |-> TRUE,
     totalPlayersOnScreen |-> 0, master |-> Null, attackedCreature |-> Null]

\* the melee attack of the template
\* speed is the period of the ability, chance is compared with a roll,
\* spell is FALSE for a block whose spell pointer is null
MeleeSpell == [range |-> 1, isMelee |-> TRUE, speed |-> 20, chance |-> 30, spell |-> TRUE]

MonsterType(master, faction, hostile) ==
    [master |-> master, faction |-> faction, enemyFactions |-> {FACTION_PLAYER},
     partners |-> {}, isHostile |-> hostile,
     spawnMonster |-> TRUE, masterPos |-> SpawnPos,
     targetDistance |-> 1, changeTargetChance |-> 1,
     runAwayHealth |-> 0,
     defenseSpells |-> << >>, summons |-> << >>, maxSummons |-> 0,
     thinkEvent |-> FALSE, despawnRadius |-> 0, despawnRange |-> 0,
     changeTargetSpeed |-> 0, yellSpeedTicks |-> 0, yellChance |-> 0,
     voiceVector |-> << >>, isAi |-> FALSE,
     soundSpeedTicks |-> 0, soundChance |-> 0, soundVector |-> << >>,
     staticAttackChance |-> 95, canPushItems |-> FALSE, canPushCreatures |-> FALSE,
     attackSpells |-> << MeleeSpell >>,
     strategiesTargetNearest |-> 70, strategiesTargetHealth |-> 10,
     strategiesTargetDamage |-> 10]

\* the fields of a constructed monster
NewMonster(targetDistance) ==
    [targetList |-> << >>, friendList |-> {}, totalPlayersOnScreen |-> 0,
     isIdle |-> TRUE, isWalkingBack |-> FALSE, inCreatureCheck |-> FALSE,
     conditions |-> FALSE,
     attackedCreature |-> Null, followCreature |-> Null,
     targetDistance |-> targetDistance,
     challengeFocusDuration |-> 0, targetChangeTicks |-> 0,
     challengeMeleeDuration |-> 0,
     attackTicks |-> 0, extraMeleeAttack |-> FALSE, lastMeleeAttack |-> 0,
     defenseTicks |-> 0, m_summons |-> << >>, hasFollowPath |-> FALSE,
     isDead |-> FALSE, eventWalk |-> FALSE,
     m_targetChangeCooldown |-> 0,
     yellTicks |-> 0, yellTasks |-> << >>, soundTicks |-> 0,
     walkCache |-> {}, listWalkDir |-> << >>,
     randomStepping |-> FALSE, ignoreFieldDamage |-> FALSE, stepDuration |-> 0,
     damageMap |-> << >>,
     ret |-> FALSE, fault |-> FALSE]

NoSearch == [searchType |-> "none", rnd |-> 0]
NoTick == [op |-> "none"]

Init ==
    /\ \E cfg \in {<< Null, FACTION_DEFAULT >>, << Null, FACTION_LION >>,
                    << 1, FACTION_DEFAULT >>} :
           mType = MonsterType(cfg[1], cfg[2], TRUE)
    /\ creatures = [c \in AllCreatures |->
                       CASE c = Self -> Creature(SpawnPos, MaxHealth, mType.faction)
                         [] c = 1 -> Creature(EdgePos, MaxHealth, FACTION_PLAYER)
                         [] c = 2 -> Creature(EdgePos, MaxHealth, mType.faction)
                         [] OTHER -> Expired]
    /\ monster = NewMonster(mType.targetDistance)
    /\ search = NoSearch
    /\ now = 0
    /\ tick = NoTick

----------------------------------------------------------------------------
(* Actions *)

\* what a null dereference does is undefined: the process stops with a
\* fault, or the call goes on without effect
UBOutcomes == {"fault", "no effect"}

\* the monster after a call that returned r
Commit(r) ==
    \E ub \in UBOutcomes :
       monster' = IF ~r.fault THEN Ret(r, FALSE)
                  ELSE IF ub = "fault" THEN [monster EXCEPT !.fault = TRUE]
                  ELSE monster

Running == ~monster.fault

\* the references a caller can hold: creatures not yet destroyed, or null
Refs == {c \in AllCreatures : lock(creatures, c)} \cup {Null}

\* the orders in which a spectator scan can visit the creatures on the map
Orders(S) == {o \in [1..Cardinality(S) -> S] : \A i, j \in DOMAIN o : i # j => o[i] # o[j]}

AddTarget(c, pushFront) ==
    /\ Running
    /\ monster.totalPlayersOnScreen < MaxCounter
    /\ Commit(addTarget(monster, creatures, c, pushFront))
    /\ UNCHANGED << creatures, mType, search, now, tick >>

RemoveTarget(c) ==
    /\ Running
    /\ Commit(removeTarget(monster, creatures, c))
    /\ UNCHANGED << creatures, mType, search, now, tick >>

AddFriend(c) ==
    /\ Running
    /\ Commit(addFriend(monster, creatures, c))
    /\ UNCHANGED << creatures, mType, search, now, tick >>

RemoveFriend(c) ==
    /\ Running
    /\ Commit(removeFriend(monster, creatures, c))
    /\ UNCHANGED << creatures, mType, search, now, tick >>

OnFollowCreatureComplete(c, hasFollowPath) ==
    /\ Running
    /\ Commit(onFollowCreatureComplete(monster, creatures, c, hasFollowPath))
    /\ UNCHANGED << creatures, mType, search, now, tick >>

SetIdle(idle) ==
    /\ Running
    /\ Commit(setIdle(monster, creatures, idle))
    /\ UNCHANGED << creatures, mType, search, now, tick >>

\* onCreatureMove(this): the monster itself moved
OnCreatureMoveSelf(newPos) ==
    /\ Running
    /\ monster.totalPlayersOnScreen < MaxCounter
    /\ newPos # getPosition(creatures)
    /\ LET W == [creatures EXCEPT ![Self].pos = newPos]
       IN /\ creatures' = W
          /\ \E order \in Orders(Spectators(W)) :
                Commit(updateIdleStatus(updateTargetList(monster, W, order), W))
    /\ UNCHANGED << mType, search, now, tick >>

\* the creature on the next tile towards the followed creature
TopCreatures(W) ==
    {c \in Others : W[c].life = "world" /\ chebyshev(getPosition(W), W[c].pos) = 1}
        \cup {Null}

\* onCreatureMove(creature) for another creature
onCreatureMove(m, W, c, oldPos, topCreature) ==
    LET canSeeNewPos == canSee(W, W[c].pos)
        canSeeOldPos == canSee(W, oldPos)
        m1 == IF canSeeNewPos /\ ~canSeeOldPos THEN onCreatureEnter(m, W, c)
              ELSE IF ~canSeeNewPos /\ canSeeOldPos THEN onCreatureLeave(m, W, c)
              ELSE m
        m2 == updateIdleStatus(m1, W)
        follow == m2.followCreature
    IN IF isSummon(m2) THEN m2
       ELSE IF follow # Null /\ lock(W, follow)
       THEN IF /\ \/ getDistanceX(W[follow].pos, getPosition(W)) > 1
                  \/ getDistanceY(W[follow].pos, getPosition(W)) > 1
               /\ mType.changeTargetChance > 0
               /\ follow # topCreature
               /\ isOpponent(m2, W, topCreature)
            THEN selectTarget(m2, W, topCreature)
            ELSE m2
       ELSE IF isOpponent(m2, W, c) THEN selectTarget(m2, W, c)
       ELSE m2

OnCreatureMove(c, newPos) ==
    /\ Running
    /\ monster.totalPlayersOnScreen < MaxCounter
    /\ creatures[c].life = "world"
    /\ newPos # creatures[c].pos
    /\ LET W == [creatures EXCEPT ![c].pos = newPos]
           oldPos == creatures[c].pos
       IN /\ creatures' = W
          /\ IF canSee(W, oldPos) \/ canSee(W, newPos)
             THEN \E topCreature \in TopCreatures(W) :
                     Commit(onCreatureMove(monster, W, c, oldPos, topCreature))
             ELSE UNCHANGED monster
    /\ UNCHANGED << mType, search, now, tick >>

\* onRemoveCreature(creature) for another creature
OnRemoveCreature(c) ==
    /\ Running
    /\ creatures[c].life = "world"
    /\ LET W == [creatures EXCEPT ![c].life = "removed"]
       IN /\ creatures' = W
          /\ Commit(onCreatureLeave(monster, W, c))
    /\ UNCHANGED << mType, search, now, tick >>

\* the last owner of a removed creature lets go of it
Expire(c) ==
    /\ Running
    /\ creatures[c].life = "removed"
    /\ creatures' = [creatures EXCEPT ![c] = Expired]
    /\ UNCHANGED << mType, monster, search, now, tick >>

\* another creature is damaged or healed
ChangeHealth(c, health) ==
    /\ Running
    /\ creatures[c].life = "world"
    /\ health # creatures[c].health
    /\ creatures' = [creatures EXCEPT ![c].health = health]
    /\ UNCHANGED << mType, monster, search, now, tick >>

Next ==
    \/ \E c \in Refs, pushFront \in BOOLEAN : AddTarget(c, pushFront)
    \/ \E c \in Refs : RemoveTarget(c)
    \/ \E c \in Refs : AddFriend(c)
    \/ \E c \in Refs : RemoveFriend(c)
    \/ \E c \in Refs, hasFollowPath \in BOOLEAN : OnFollowCreatureComplete(c, hasFollowPath)
    \/ \E idle \in BOOLEAN : SetIdle(idle)
    \/ \E newPos \in {SpawnPos, OffSpawnPos} : OnCreatureMoveSelf(newPos)
    \/ \E c \in Others, newPos \in {NearPos, EdgePos} : OnCreatureMove(c, newPos)
    \/ \E c \in Others : OnRemoveCreature(c)
    \/ \E c \in Others : Expire(c)
    \/ \E c \in Others, health \in {0, MaxHealth} : ChangeHealth(c, health)

Spec == Init /\ [][Next]_vars

----------------------------------------------------------------------------
(* Target selection over drawn worlds.  The world stands still; the        *)
(* monster is asked to select, search and take up challenges.              *)

SelectTarget(c) ==
    /\ Running
    /\ Commit(selectTarget(monster, creatures, c))
    /\ UNCHANGED << creatures, mType, search, now, tick >>

\* rnd: the roll of uniform_random(1, 100); idx: the draw of the random strategy
SearchTarget(searchType, rnd, idx) ==
    /\ Running
    /\ Commit(searchTarget(monster, creatures, searchType, rnd, idx))
    /\ search' = [searchType |-> resolveSearchType(searchType, rnd), rnd |-> rnd]
    /\ UNCHANGED << creatures, mType, now, tick >>

ChallengeCreature(c, targetChangeCooldown) ==
    /\ Running
    /\ Commit(challengeCreature(monster, creatures, c, targetChangeCooldown))
    /\ UNCHANGED << creatures, mType, search, now, tick >>

\* the cooldown a challenge passes as targetChangeCooldown
MaxCooldown == 1

\* positions at Chebyshev distance 2, 3 and 5 from the spawn position
Dist2Pos == Pos(3, 2, 0)
Dist3Pos == Pos(1, 4, 0)
Dist5Pos == Pos(6, 1, 0)
SearchPositions == {Dist2Pos, Dist3Pos, Dist5Pos}

RangedSpell == [range |-> 3, isMelee |-> FALSE, speed |-> 20, chance |-> 15, spell |-> TRUE]

\* a template that keeps its distance and has a ranged attack
RangedType(master, faction, hostile) ==
    [MonsterType(master, faction, hostile) EXCEPT
        !.targetDistance = 4, !.attackSpells = << MeleeSpell, RangedSpell >>]

Permutations3 == {s \in [1..3 -> Others] : \A i, j \in 1..3 : i # j => s[i] # s[j]}

\* an active monster that holds the target list tl
ActiveMonster(tl, dm) ==
    [NewMonster(mType.targetDistance) EXCEPT
        !.targetList = tl, !.damageMap = dm,
        !.isIdle = FALSE, !.inCreatureCheck = TRUE,
        !.totalPlayersOnScreen =
            IF mType.master = Null /\ mType.faction # FACTION_DEFAULT
            THEN Cardinality({i \in 1..Len(tl) : isPlayer(tl[i])}) ELSE 0]

\* the attributes drawn for a candidate: every distance, full health or
\* one point of it, either faction
Candidates ==
    (SearchPositions \X {MaxHealth} \X {FACTION_DEFAULT, FACTION_LION})
        \cup ({Dist3Pos} \X {1} \X {FACTION_DEFAULT, FACTION_LION})

\* three healthy creatures at drawn distances, in a drawn list order
InitNearest ==
    /\ mType = MonsterType(Null, FACTION_DEFAULT, TRUE)
    /\ \E w \in [Others -> Candidates] :
          creatures = [c \in AllCreatures |->
                          IF c = Self THEN Creature(SpawnPos, MaxHealth, mType.faction)
                          ELSE Creature(w[c][1], w[c][2], w[c][3])]
    /\ \E tl \in Permutations3 : monster = ActiveMonster(tl, << 1, 2 >>)
    /\ search = NoSearch
    /\ now = 0
    /\ tick = NoTick

\* the ways a creature can be unfit as a target
Profiles(c) ==
    LET base == Creature(NearPos, MaxHealth, IF isPlayer(c) THEN FACTION_PLAYER ELSE FACTION_DEFAULT)
    IN {base,
        [base EXCEPT !.pos = Dist5Pos],
        [base EXCEPT !.pos = Pos(2, 2, 1)],
        [base EXCEPT !.life = "removed"],
        [base EXCEPT !.followOk = FALSE],
        [base EXCEPT !.sightClear = FALSE]}
       \cup {[base EXCEPT !.flag = f] : f \in Flags}

EligibilityTypes ==
    {MonsterType(Null, FACTION_DEFAULT, TRUE),
     RangedType(Null, FACTION_DEFAULT, TRUE),
     MonsterType(Null, FACTION_DEFAULT, FALSE),
     MonsterType(1, FACTION_DEFAULT, TRUE),
     RangedType(Null, FACTION_LION, TRUE)}

EligibilityLists == {<< 1, 2 >>, << 2, 1 >>, << 1 >>, << 2 >>, << 3, 2, 1 >>}

\* two creatures of drawn fitness; creature 3 has been destroyed
InitEligibility ==
    /\ mType \in EligibilityTypes
    /\ \E p1 \in Profiles(1), p2 \in Profiles(2) :
          creatures = [c \in AllCreatures |->
                          CASE c = Self -> Creature(SpawnPos, MaxHealth, mType.faction)
                            [] c = 1 -> p1
                            [] c = 2 -> p2
                            [] OTHER -> Expired]
    /\ \E tl \in EligibilityLists : monster = ActiveMonster(tl, << >>)
    /\ search = NoSearch
    /\ now = 0
    /\ tick = NoTick

InitSearch == InitNearest \/ InitEligibility

Strategies == SearchTypes \ {TARGETSEARCH_DEFAULT}

\* the draws of uniform_random(0, size - 1); only the random strategy draws
Draws(t) == IF t = TARGETSEARCH_RANDOM THEN 0..2 ELSE {0}

NextSearch ==
    \/ \E c \in Refs : SelectTarget(c)
    \/ \E t \in Strategies : \E idx \in Draws(t) : SearchTarget(t, 1, idx)
    \/ \E c \in Refs, cd \in {MaxCooldown} : ChallengeCreature(c, cd)

SpecSearch == InitSearch /\ [][NextSearch]_vars

----------------------------------------------------------------------------
(* The weighted default strategy over drawn weights and every roll *)

Weights == {0, 30, 100}
Rolls == 1..100

InitStrategy ==
    /\ \E wN, wH, wD \in Weights :
          mType = [MonsterType(Null, FACTION_DEFAULT, TRUE) EXCEPT
                      !.strategiesTargetNearest = wN,
                      !.strategiesTargetHealth = wH,
                      !.strategiesTargetDamage = wD]
    /\ creatures = [c \in AllCreatures |->
                       CASE c = Self -> Creature(SpawnPos, MaxHealth, FACTION_DEFAULT)
                         [] c = 1 -> Creature(Dist2Pos, MaxHealth, FACTION_DEFAULT)
                         [] c = 2 -> Creature(Dist3Pos, 1, FACTION_DEFAULT)
                         [] OTHER -> Creature(Dist5Pos, MaxHealth, FACTION_DEFAULT)]
    /\ monster = ActiveMonster(<< 1, 2, 3 >>, << 0, 0, 2 >>)
    /\ search = NoSearch
    /\ now = 0
    /\ tick = NoTick

NextStrategy == \E rnd \in Rolls, idx \in 0..2 : SearchTarget(TARGETSEARCH_DEFAULT, rnd, idx)

SpecStrategy == InitStrategy /\ [][NextStrategy]_vars

----------------------------------------------------------------------------
(* Combat scheduler: the attack loop *)

\* the grace window of a melee swing, in milliseconds
MeleeWindow == 1500
\* the clock advances in steps of TimeStep up to MaxTimeSteps steps
TimeStep == 500
MaxTimeSteps == 4

isFleeing(m, W) ==
    /\ ~isSummon(m)
    /\ W[Self].health <= mType.runAwayHealth
    /\ m.challengeFocusDuration <= 0
    /\ m.challengeMeleeDuration <= 0

\* the result of canUseSpell: its return value, its two reference
\* parameters and the monster after the call
SpellCheck(ret, inRange, resetTicks, m) ==
    [ret |-> ret, inRange |-> inRange, resetTicks |-> resetTicks, m |-> m]

\* canUseSpell that skips the timing tests for every ability under the
\* extra-swing flag, not only for melee abilities
canUseSpell_extraForAll(m, W, pos, targetPos, sb, interval, resetTicks) ==
    IF sb.isMelee /\ isFleeing(m, W) THEN SpellCheck(FALSE, TRUE, resetTicks, m)
    ELSE IF ~m.extraMeleeAttack /\ sb.isMelee /\ (now - m.lastMeleeAttack) < MeleeWindow
    THEN SpellCheck(FALSE, TRUE, resetTicks, m)
    ELSE LET m1 == IF m.extraMeleeAttack THEN [m EXCEPT !.lastMeleeAttack = now] ELSE m
             timed == ~sb.isMelee /\ ~m.extraMeleeAttack
         IN IF timed /\ sb.speed > m.attackTicks THEN SpellCheck(FALSE, TRUE, FALSE, m1)
            ELSE IF timed /\ m.attackTicks % sb.speed >= interval
            THEN SpellCheck(FALSE, TRUE, resetTicks, m1)
            ELSE IF sb.range # 0 /\ chebyshev(pos, targetPos) > sb.range
            THEN SpellCheck(FALSE, FALSE, resetTicks, m1)
            ELSE SpellCheck(TRUE, TRUE, resetTicks, m1)

canUseSpell(m, W, pos, targetPos, sb, interval, resetTicks) ==
    IF sb.isMelee /\ isFleeing(m, W) THEN SpellCheck(FALSE, TRUE, resetTicks, m)
    ELSE IF ~m.extraMeleeAttack /\ sb.isMelee /\ (now - m.lastMeleeAttack) < MeleeWindow
    THEN SpellCheck(FALSE, TRUE, resetTicks, m)
    ELSE LET m1 == IF m.extraMeleeAttack THEN [m EXCEPT !.lastMeleeAttack = now] ELSE m
             timed == ~sb.isMelee \/ ~m.extraMeleeAttack
         IN IF timed /\ sb.speed > m.attackTicks THEN SpellCheck(FALSE, TRUE, FALSE, m1)
            ELSE IF timed /\ m.attackTicks % sb.speed >= interval
            THEN SpellCheck(FALSE, TRUE, resetTicks, m1)
            ELSE IF sb.range # 0 /\ chebyshev(pos, targetPos) > sb.range
            THEN SpellCheck(FALSE, FALSE, resetTicks, m1)
            ELSE SpellCheck(TRUE, TRUE, resetTicks, m1)

\* the loop of doAttacking from spell block i on; rolls[i] is the roll of
\* uniform_random(1, 30) for block i; passed, cast and far collect the
\* blocks that passed canUseSpell, that were cast and that canUseSpell found
\* out of range
RECURSIVE attackLoop(_, _, _, _, _)
attackLoop(acc, W, interval, rolls, i) ==
    IF i > Len(mType.attackSpells) THEN acc
    ELSE LET sb == mType.attackSpells[i]
         IN IF ~sb.spell \/ (sb.isMelee /\ isFleeing(acc.m, W))
            THEN attackLoop(acc, W, interval, rolls, i + 1)
            ELSE LET c == canUseSpell(acc.m, W, getPosition(W),
                                      W[acc.m.attackedCreature].pos, sb, interval,
                                      acc.resetTicks)
                     fires == c.ret /\ sb.chance >= rolls[i]
                     m1 == IF fires /\ sb.isMelee
                           THEN [c.m EXCEPT !.extraMeleeAttack = FALSE] ELSE c.m
                     m2 == IF ~c.inRange /\ sb.isMelee
                           THEN [m1 EXCEPT !.extraMeleeAttack = TRUE] ELSE m1
                 IN attackLoop([m |-> m2, resetTicks |-> c.resetTicks,
                                passed |-> IF c.ret
                                           THEN acc.passed \cup
                                                {[spell |-> i, extra |-> acc.m.extraMeleeAttack]}
                                           ELSE acc.passed,
                                cast |-> IF fires THEN acc.cast \cup {i} ELSE acc.cast,
                                far |-> IF c.inRange THEN acc.far ELSE acc.far \cup {i}],
                               W, interval, rolls, i + 1)

\* attackTicks is the accumulator the loop saw, after interval was added
doAttacking(m, W, interval, rolls) ==
    IF m.attackedCreature = Null \/ (isSummon(m) /\ m.attackedCreature = Self)
    THEN [m |-> m, ran |-> FALSE, attackTicks |-> m.attackTicks, resetTicks |-> FALSE,
          passed |-> {}, cast |-> {}, far |-> {}]
    ELSE LET m0 == [m EXCEPT !.attackTicks = @ + interval]
             r == attackLoop([m |-> m0, resetTicks |-> interval # 0,
                              passed |-> {}, cast |-> {}, far |-> {}],
                             W, interval, rolls, 1)
         IN [m |-> IF r.resetTicks THEN [r.m EXCEPT !.attackTicks = 0] ELSE r.m,
             ran |-> TRUE, attackTicks |-> m0.attackTicks, resetTicks |-> r.resetTicks,
             passed |-> r.passed, cast |-> r.cast, far |-> r.far]

\* the tick intervals: a tick of the think loop, and the immediate call
Intervals == {0, 10}
\* the rolls of uniform_random(1, 30) that matter: the least and the greatest
AttackRolls == {1, 30}

DoAttacking(interval, rolls) ==
    /\ Running
    /\ LET r == doAttacking(monster, creatures, interval, rolls)
       IN /\ monster' = r.m
          /\ tick' = [op |-> "doAttacking", interval |-> interval,
                      fleeing |-> isFleeing(monster, creatures),
                      ran |-> r.ran, attackTicks |-> r.attackTicks,
                      resetTicks |-> r.resetTicks, passed |-> r.passed, cast |-> r.cast]
    /\ UNCHANGED << creatures, mType, search, now >>

\* time passes
AdvanceTime ==
    /\ now + TimeStep <= MeleeWindow + MaxTimeSteps * TimeStep
    /\ now' = now + TimeStep
    /\ UNCHANGED << creatures, mType, monster, search, tick >>

SlowRanged == [RangedSpell EXCEPT !.speed = 30, !.chance = 30]
FastRanged == [RangedSpell EXCEPT !.speed = 10]
NullSpell == [RangedSpell EXCEPT !.spell = FALSE, !.speed = 30]
LongMelee == [MeleeSpell EXCEPT !.range = 2]

\* the attack lists of the templates under study
AttackLists ==
    {<< MeleeSpell >>, << RangedSpell >>, << MeleeSpell, SlowRanged >>,
     << FastRanged, RangedSpell >>, << NullSpell, FastRanged >>,
     << MeleeSpell, LongMelee >>}

\* a monster that runs away at health 1
AttackType(spells) ==
    [MonsterType(Null, FACTION_DEFAULT, TRUE) EXCEPT
        !.attackSpells = spells, !.runAwayHealth = 1, !.targetDistance = 1]

\* the monster attacks and follows player 1, next to it or two tiles away
InitAttack ==
    /\ \E spells \in AttackLists : mType = AttackType(spells)
    /\ \E h \in {1, MaxHealth}, p \in {NearPos, Dist2Pos} :
          creatures = [c \in AllCreatures |->
                          CASE c = Self -> Creature(SpawnPos, h, FACTION_DEFAULT)
                            [] c = 1 -> Creature(p, MaxHealth, FACTION_PLAYER)
                            [] OTHER -> Expired]
    /\ monster = [ActiveMonster(<< 1 >>, << >>) EXCEPT
                     !.attackedCreature = 1, !.followCreature = 1]
    /\ search = NoSearch
    /\ now = MeleeWindow
    /\ tick = NoTick

NextAttack ==
    \/ \E interval \in Intervals :
          \E rolls \in [1..Len(mType.attackSpells) -> AttackRolls] :
             DoAttacking(interval, rolls)
    \/ AdvanceTime
    \/ \E newPos \in {NearPos, Dist2Pos} : OnCreatureMove(1, newPos)

SpecAttack == InitAttack /\ [][NextAttack]_vars

----------------------------------------------------------------------------
(* Combat scheduler: the defense loop and its summons *)

\* the template allows at most MaxSummons summons
MaxSummons == 3

\* the defense spells of onThinkDefense from block i on; rolls[i] is the
\* roll of uniform_random(1, 100) for block i
RECURSIVE defenseLoop(_, _, _, _)
defenseLoop(acc, interval, rolls, i) ==
    IF i > Len(mType.defenseSpells) THEN acc
    ELSE LET sb == mType.defenseSpells[i]
         IN IF sb.speed > acc.m.defenseTicks
            THEN defenseLoop([acc EXCEPT !.resetTicks = FALSE], interval, rolls, i + 1)
            ELSE IF ~sb.spell \/ acc.m.defenseTicks % sb.speed >= interval
            THEN defenseLoop(acc, interval, rolls, i + 1)
            ELSE IF sb.chance >= rolls[i]
            THEN defenseLoop([acc EXCEPT !.cast = @ \cup {i}], interval, rolls, i + 1)
            ELSE defenseLoop(acc, interval, rolls, i + 1)

\* the live summons of the caster that carry the name
summonCount(m, name) == Cardinality({k \in 1..Len(m.m_summons) : m.m_summons[k] = name})

\* one summon entry without the test of the global cap inside the loop
summonStep_noCapTest(acc, summonBlock, interval, roll, placed) ==
    IF summonBlock.speed > acc.m.defenseTicks THEN [acc EXCEPT !.resetTicks = FALSE]
    ELSE IF acc.m.defenseTicks % summonBlock.speed >= interval THEN acc
    ELSE IF summonCount(acc.m, summonBlock.name) >= summonBlock.count THEN acc
    ELSE IF summonBlock.chance < roll THEN acc
    ELSE IF ~placed THEN acc
    ELSE [acc EXCEPT !.m.m_summons = Append(@, summonBlock.name),
                     !.created = Append(@, summonBlock.name)]

\* one summon entry of the loop; roll is its roll of uniform_random(1, 100),
\* placed tells whether the new monster was created and placed on the map;
\* setMaster puts the placed summon into the caster's m_summons
summonStep(acc, summonBlock, interval, roll, placed) ==
    IF summonBlock.speed > acc.m.defenseTicks THEN [acc EXCEPT !.resetTicks = FALSE]
    ELSE IF Len(acc.m.m_summons) >= mType.maxSummons THEN acc
    ELSE IF acc.m.defenseTicks % summonBlock.speed >= interval THEN acc
    ELSE IF summonCount(acc.m, summonBlock.name) >= summonBlock.count THEN acc
    ELSE IF summonBlock.chance < roll THEN acc
    ELSE IF ~placed THEN acc
    ELSE [acc EXCEPT !.m.m_summons = Append(@, summonBlock.name),
                     !.created = Append(@, summonBlock.name)]

RECURSIVE summonLoop(_, _, _, _, _)
summonLoop(acc, interval, rolls, placed, i) ==
    IF i > Len(mType.summons) THEN acc
    ELSE summonLoop(summonStep(acc, mType.summons[i], interval, rolls[i], placed[i]),
                    interval, rolls, placed, i + 1)

\* defenseTicks is the accumulator the loops saw, after interval was added
onThinkDefense(m, interval, spellRolls, summonRolls, placed) ==
    LET m0 == [m EXCEPT !.defenseTicks = @ + interval]
        d == defenseLoop([m |-> m0, resetTicks |-> TRUE, cast |-> {}, created |-> << >>],
                         interval, spellRolls, 1)
        r == IF ~isSummon(m) /\ Len(m.m_summons) < mType.maxSummons /\ m.hasFollowPath
             THEN summonLoop(d, interval, summonRolls, placed, 1)
             ELSE d
    IN [m |-> IF r.resetTicks THEN [r.m EXCEPT !.defenseTicks = 0] ELSE r.m,
        defenseTicks |-> m0.defenseTicks, resetTicks |-> r.resetTicks,
        cast |-> r.cast, created |-> r.created]

\* the rolls of uniform_random(1, 100) that matter: the least and the greatest
DefenseRolls == {1, 100}

OnThinkDefense(interval, spellRolls, summonRolls, placed) ==
    /\ Running
    /\ LET r == onThinkDefense(monster, interval, spellRolls, summonRolls, placed)
       IN /\ monster' = r.m
          /\ tick' = [op |-> "onThinkDefense", interval |-> interval,
                      isSummon |-> isSummon(monster),
                      hasFollowPath |-> monster.hasFollowPath,
                      summonsBefore |-> monster.m_summons,
                      defenseTicks |-> r.defenseTicks, resetTicks |-> r.resetTicks,
                      cast |-> r.cast, created |-> r.created]
    /\ UNCHANGED << creatures, mType, search, now >>

\* a summon dies or is dismissed: it leaves the caster's m_summons
SummonLeaves(k) ==
    /\ k \in 1..Len(monster.m_summons)
    /\ monster' = [monster EXCEPT !.m_summons = SubSeq(@, 1, k - 1) \o SubSeq(@, k + 1, Len(@))]
    /\ UNCHANGED << creatures, mType, search, now, tick >>

\* the path search towards the followed creature succeeds or fails
SetFollowPath(found) ==
    /\ found # monster.hasFollowPath
    /\ monster' = [monster EXCEPT !.hasFollowPath = found]
    /\ UNCHANGED << creatures, mType, search, now, tick >>

SummonBlock(name, speed, count) == [name |-> name, speed |-> speed, chance |-> 50, count |-> count]
HealSpell == [speed |-> 20, chance |-> 50, spell |-> TRUE]

\* the summon lists of the templates under study: one entry, two entries
\* of one name with different caps, entries of two names
SummonLists ==
    {<< SummonBlock("rat", 10, 1) >>,
     << SummonBlock("rat", 10, 1), SummonBlock("rat", 20, 2) >>,
     << SummonBlock("rat", 10, 2), SummonBlock("bat", 10, 2) >>}

InitDefense ==
    /\ \E master \in {Null, 1}, list \in SummonLists, cap \in 1..MaxSummons,
          spells \in {<< >>, << HealSpell >>} :
          mType = [MonsterType(master, FACTION_DEFAULT, TRUE) EXCEPT
                      !.summons = list, !.maxSummons = cap, !.defenseSpells = spells]
    /\ creatures = [c \in AllCreatures |->
                       CASE c = Self -> Creature(SpawnPos, MaxHealth, FACTION_DEFAULT)
                         [] c = 1 -> Creature(NearPos, MaxHealth, FACTION_PLAYER)
                         [] OTHER -> Expired]
    /\ monster = [ActiveMonster(<< 1 >>, << >>) EXCEPT
                     !.attackedCreature = 1, !.followCreature = 1]
    /\ search = NoSearch
    /\ now = 0
    /\ tick = NoTick

NextDefense ==
    \/ \E spellRolls \in [1..Len(mType.defenseSpells) -> DefenseRolls],
          summonRolls \in [1..Len(mType.summons) -> DefenseRolls],
          placed \in [1..Len(mType.summons) -> BOOLEAN] :
          OnThinkDefense(10, spellRolls, summonRolls, placed)
    \/ \E k \in 1..MaxSummons : SummonLeaves(k)
    \/ \E found \in BOOLEAN : SetFollowPath(found)

SpecDefense == InitDefense /\ [][NextDefense]_vars

----------------------------------------------------------------------------
(* Lifecycle: idle re-evaluation of a monster in every condition of life *)

\* onAddCondition / onEndCondition: the condition list has changed
OnConditionStatusChange(conditions) ==
    /\ Running
    /\ conditions # monster.conditions
    /\ LET m == [monster EXCEPT !.conditions = conditions]
       IN /\ Commit(updateIdleStatus(m, creatures))
          /\ tick' = [op |-> "updateIdleStatus", before |-> m]
    /\ UNCHANGED << creatures, mType, search, now >>

\* Monster::changeHealth: the monster is woken, then its health changes
ChangeHealthSelf(health) ==
    /\ Running
    /\ health # creatures[Self].health
    /\ Commit(setIdle(monster, creatures, FALSE))
    /\ creatures' = [creatures EXCEPT ![Self].health = health]
    /\ tick' = [op |-> "changeHealth", before |-> monster]
    /\ UNCHANGED << mType, search, now >>

\* templates with and without a spawn, with an unset anchor, of a summon
\* and of a faction
IdleTypes ==
    {MonsterType(Null, FACTION_DEFAULT, TRUE),
     [MonsterType(Null, FACTION_DEFAULT, TRUE) EXCEPT !.spawnMonster = FALSE],
     [MonsterType(Null, FACTION_DEFAULT, TRUE) EXCEPT !.masterPos = Origin],
     MonsterType(1, FACTION_DEFAULT, TRUE),
     MonsterType(Null, FACTION_LION, TRUE)}

\* the monster on or off its anchor, alive, at health 0 or removed, idle
\* or active with or without a target
InitIdle ==
    /\ mType \in IdleTypes
    /\ \E p \in {SpawnPos, OffSpawnPos}, h \in {0, MaxHealth}, l \in {"world", "removed"} :
          creatures = [c \in AllCreatures |->
                          CASE c = Self -> [Creature(p, h, mType.faction) EXCEPT !.life = l]
                            [] c = 1 -> Creature(NearPos, MaxHealth, FACTION_PLAYER)
                            [] c = 2 -> Creature(NearPos, MaxHealth, FACTION_DEFAULT)
                            [] OTHER -> Expired]
    /\ \E tl \in {<< >>, << 1 >>}, conditions \in BOOLEAN :
          \/ monster = [ActiveMonster(tl, << >>) EXCEPT !.conditions = conditions]
          \/ monster = [NewMonster(mType.targetDistance) EXCEPT !.conditions = conditions]
    /\ search = NoSearch
    /\ now = 0
    /\ tick = NoTick

NextIdle ==
    \/ \E conditions \in BOOLEAN : OnConditionStatusChange(conditions)
    \/ \E health \in {0, MaxHealth} : ChangeHealthSelf(health)
    \/ \E newPos \in {SpawnPos, OffSpawnPos} : OnCreatureMoveSelf(newPos)

SpecIdle == InitIdle /\ [][NextIdle]_vars

\* what the creatureAppearEvent script of the template does: there is none,
\* its environment cannot be reserved, it handles the event, or it passes
AppearHooks == {"none", "overflow", "handled", "passed"}

\* onCreatureAppear: after the script, the monster refreshes its lists when
\* it appeared itself and meets the creature otherwise
onCreatureAppear(m, W, c, hook, order) ==
    IF hook \in {"overflow", "handled"} THEN m
    ELSE IF c = Self THEN updateIdleStatus(updateTargetList(m, W, order), W)
    ELSE onCreatureEnter(m, W, c)

\* a creature is put on a tile the monster sees
OnCreatureAppear(c, pos, hook) ==
    /\ Running
    /\ monster.totalPlayersOnScreen < MaxCounter
    /\ creatures[c].life # "world"
    /\ LET W == [creatures EXCEPT
                    ![c] = IF c = Self THEN [@ EXCEPT !.life = "world"]
                           ELSE Creature(pos, MaxHealth,
                                         IF c = 1 THEN FACTION_PLAYER ELSE FACTION_DEFAULT)]
       IN /\ c # Self => canSee(W, pos)
          /\ creatures' = W
          /\ \E order \in Orders(Spectators(W)) :
                Commit(onCreatureAppear(monster, W, c, hook, order))
    /\ tick' = [op |-> "onCreatureAppear", creature |-> c, hook |-> hook,
                before |-> monster]
    /\ UNCHANGED << mType, search, now >>

\* templates without a master, of the default faction and of another one,
\* and of a summon
WakeTypes ==
    {MonsterType(Null, FACTION_DEFAULT, TRUE), MonsterType(Null, FACTION_LION, TRUE),
     MonsterType(1, FACTION_DEFAULT, TRUE)}

\* the monster on its anchor, alive, at health 0 or removed, idle or active,
\* with a player out of view
InitWake ==
    /\ mType \in WakeTypes
    /\ \E h \in {0, MaxHealth}, l \in {"world", "removed"} :
          creatures = [c \in AllCreatures |->
                          CASE c = Self -> [Creature(SpawnPos, h, mType.faction)
                                               EXCEPT !.life = l]
                            [] c = 1 -> Creature(EdgePos, MaxHealth, FACTION_PLAYER)
                            [] OTHER -> Expired]
    /\ monster \in {ActiveMonster(<< >>, << >>), NewMonster(mType.targetDistance)}
    /\ search = NoSearch
    /\ now = 0
    /\ tick = NoTick

NextWake ==
    \/ \E c \in {Self, 1, 2}, hook \in AppearHooks : OnCreatureAppear(c, NearPos, hook)
    \/ \E newPos \in {NearPos, EdgePos} : OnCreatureMove(1, newPos)
    \/ OnRemoveCreature(1)
    \/ \E health \in 0..MaxHealth : ChangeHealthSelf(health)
    \/ \E idle \in BOOLEAN : SetIdle(idle)

SpecWake == InitWake /\ [][NextWake]_vars

----------------------------------------------------------------------------
(* Lifecycle: death of the monster and release of its summons *)

\* Creature::changeHealth: health moves by healthChange and stays at 0 or above
changeHealth(cr, healthChange) ==
    [cr EXCEPT !.health = IF cr.health + healthChange < 0 THEN 0
                          ELSE cr.health + healthChange]

\* Creature::removeMaster
removeMaster(cr) == [cr EXCEPT !.master = Null]

\* death that leaves the friend list as it is
death_keepsFriends(m, W) ==
    LET m1 == [m EXCEPT !.attackedCreature = Null]
        summons == Range(m1.m_summons) \ {Null}
        W1 == [c \in AllCreatures |->
                  IF c \in summons
                  THEN removeMaster(changeHealth(W[c], 0 - W[c].health))
                  ELSE W[c]]
        m2 == [m1 EXCEPT !.m_summons = << >>]
        m3 == onIdleStatus(clearTargetList(m2), W1)
    IN [m |-> [m3 EXCEPT !.isDead = TRUE], W |-> W1]

death(m, W) ==
    LET m1 == [m EXCEPT !.attackedCreature = Null]
        summons == Range(m1.m_summons) \ {Null}
        W1 == [c \in AllCreatures |->
                  IF c \in summons
                  THEN removeMaster(changeHealth(W[c], 0 - W[c].health))
                  ELSE W[c]]
        m2 == [m1 EXCEPT !.m_summons = << >>]
        m3 == onIdleStatus(clearFriendList(clearTargetList(m2)), W1)
    IN [m |-> [m3 EXCEPT !.isDead = TRUE], W |-> W1]

\* the monster's health is 0 and the game runs its death
Death ==
    /\ Running
    /\ ~monster.isDead
    /\ creatures[Self].health <= 0
    /\ LET r == death(monster, creatures)
       IN /\ monster' = r.m
          /\ creatures' = r.W
          /\ tick' = [op |-> "death", before |-> monster, summons |-> creatures]
    /\ UNCHANGED << mType, search, now >>

\* a monster at health 0 or above with any of the others as its summons
InitDeath ==
    /\ mType = MonsterType(Null, FACTION_DEFAULT, TRUE)
    /\ \E owned \in SUBSET Others, h \in {0, MaxHealth}, hs \in {1, MaxHealth} :
          /\ creatures = [c \in AllCreatures |->
                             CASE c = Self -> Creature(SpawnPos, h, mType.faction)
                               [] c \in owned ->
                                    [Creature(NearPos, hs, FACTION_DEFAULT)
                                        EXCEPT !.master = Self]
                               [] c = 1 -> Creature(NearPos, MaxHealth, FACTION_PLAYER)
                               [] OTHER -> Creature(NearPos, MaxHealth, FACTION_DEFAULT)]
          /\ \E order \in Orders(owned), tl \in {<< >>, << 1 >>},
                attacked \in {Null, 1} :
                monster = [ActiveMonster(tl, << >>)
                              EXCEPT !.m_summons = order,
                                     !.friendList = owned,
                                     !.attackedCreature = IF tl = << >> THEN Null
                                                          ELSE attacked]
    /\ search = NoSearch
    /\ now = 0
    /\ tick = NoTick

NextDeath ==
    \/ Death
    \/ \E health \in {0, MaxHealth} : ChangeHealthSelf(health)
    \/ \E c \in Others, health \in {1, MaxHealth} : ChangeHealth(c, health)
    \/ \E c \in Refs : AddFriend(c)

SpecDeath == InitDeath /\ [][NextDeath]_vars

----------------------------------------------------------------------------
(* The tick: onThink from the scripting hook to the sound step *)

\* at most MaxYellTasks yell tasks wait in the thread pool
MaxYellTasks == 2
ThinkInterval == 10

\* SpawnsMonster::isInZone: within radius of the centre on both axes
isInZone(centerPos, radius, pos) ==
    /\ getDistanceX(centerPos, pos) <= radius
    /\ getDistanceY(centerPos, pos) <= radius

isInSpawnRange(W, pos) ==
    IF ~mType.spawnMonster THEN TRUE
    ELSE IF mType.despawnRadius = 0 THEN TRUE
    ELSE IF ~isInZone(mType.masterPos, mType.despawnRadius, pos) THEN FALSE
    ELSE IF mType.despawnRange = 0 THEN TRUE
    ELSE IF getDistanceZ(pos, mType.masterPos) > mType.despawnRange THEN FALSE
    ELSE TRUE

\* Game::removeCreature of the monster itself: its own onRemoveCreature
\* runs setIdle(true) unless the disappear hook claims the event, then the
\* monster is flagged removed
removeSelf(m, W, notified) ==
    [m |-> IF notified THEN setIdle(m, W, TRUE) ELSE m,
     W |-> [W EXCEPT ![Self].life = "removed"]]

\* Game::internalTeleport of the monster: a removed creature stays where it
\* is; a moved one runs its own onCreatureMove
internalTeleport(m, W, pos, order) ==
    IF isRemoved(W, Self) \/ pos = getPosition(W) THEN [m |-> m, W |-> W]
    ELSE LET W1 == [W EXCEPT ![Self].pos = pos]
             seen == SelectSeq(order, LAMBDA c : c \in Spectators(W1))
         IN [m |-> updateIdleStatus(updateTargetList(m, W1, seen), W1), W |-> W1]

addEventWalk(m) == [m EXCEPT !.eventWalk = TRUE]

\* the summon's part of onThink: follow the attacked creature or the master
summonThink(m, W) ==
    LET attackedCreature == m.attackedCreature
        followCreature == m.followCreature
        master == getMaster(m)
    IN IF attackedCreature = Self THEN setFollowCreature(m, W, Null)
       ELSE IF attackedCreature # Null /\ followCreature # attackedCreature
       THEN setFollowCreature(m, W, attackedCreature)
       ELSE IF master # Null /\ W[master].attackedCreature # Null
       THEN selectTarget(m, W, W[master].attackedCreature)
       ELSE IF master # followCreature THEN setFollowCreature(m, W, master)
       ELSE m

\* the search type of the wild monster's part of onThink, "none" for no search
thinkSearchType(m, W) ==
    LET attackedCreature == m.attackedCreature
        followCreature == m.followCreature
        isDisconnected == /\ attackedCreature # Null
                          /\ isPlayer(attackedCreature)
                          /\ W[attackedCreature].flag = "disconnected"
        isUnattackable == /\ attackedCreature # Null
                          /\ ~canUseAttack(m, W, getPosition(W), attackedCreature)
        isUnreachable == /\ m.targetDistance <= 1
                         /\ attackedCreature # Null
                         /\ followCreature # Null
                         /\ ~m.hasFollowPath
    IN IF m.targetList = << >> THEN "none"
       ELSE IF attackedCreature = Null \/ isDisconnected \/ isUnattackable \/ isUnreachable
       THEN IF followCreature = Null \/ ~m.hasFollowPath \/ isDisconnected
            THEN TARGETSEARCH_NEAREST
            ELSE IF /\ attackedCreature # Null
                    /\ isFleeing(m, W)
                    /\ ~canUseAttack(m, W, getPosition(W), attackedCreature)
            THEN TARGETSEARCH_DEFAULT
            ELSE "none"
       ELSE "none"

\* onThinkTarget: the result and whether it searched for a target
\* the strategy the governor hands to searchTarget
targetChangeSearchType ==
    IF mType.targetDistance <= 1 THEN TARGETSEARCH_RANDOM ELSE TARGETSEARCH_NEAREST

\* the governor that reconsiders under a focus lock as well
onThinkTarget_ignoresFocus(m, W, interval, roll, idx) ==
    IF isSummon(m) \/ mType.changeTargetSpeed = 0 THEN [m |-> m, searched |-> FALSE, reconsidered |-> FALSE]
    ELSE LET focus == m.challengeFocusDuration > 0
             m1 == IF focus
                   THEN [m EXCEPT !.challengeFocusDuration =
                                      IF @ - interval <= 0 THEN 0 ELSE @ - interval]
                   ELSE m
             cooling == m1.m_targetChangeCooldown > 0
             expired == cooling /\ m1.m_targetChangeCooldown - interval <= 0
             m2 == IF ~cooling THEN m1
                   ELSE IF expired
                   THEN [m1 EXCEPT !.m_targetChangeCooldown = 0,
                                   !.targetChangeTicks = mType.changeTargetSpeed]
                   ELSE [m1 EXCEPT !.m_targetChangeCooldown = @ - interval]
             canChangeTarget == ~cooling \/ expired
         IN IF ~canChangeTarget THEN [m |-> m2, searched |-> FALSE, reconsidered |-> FALSE]
            ELSE IF m2.targetChangeTicks + interval < mType.changeTargetSpeed
            THEN [m |-> [m2 EXCEPT !.targetChangeTicks = @ + interval], searched |-> FALSE, reconsidered |-> FALSE]
            ELSE LET m3 == [m2 EXCEPT !.targetChangeTicks = 0,
                                      !.m_targetChangeCooldown = mType.changeTargetSpeed,
                                      !.challengeFocusDuration = 0]
                 IN IF mType.changeTargetChance >= roll
                    THEN [m |-> searchTarget(m3, W, targetChangeSearchType, roll, idx),
                          searched |-> TRUE, reconsidered |-> TRUE]
                    ELSE [m |-> m3, searched |-> FALSE, reconsidered |-> TRUE]

onThinkTarget(m, W, interval, roll, idx) ==
    IF isSummon(m) \/ mType.changeTargetSpeed = 0 THEN [m |-> m, searched |-> FALSE, reconsidered |-> FALSE]
    ELSE LET focus == m.challengeFocusDuration > 0
             m1 == IF focus
                   THEN [m EXCEPT !.challengeFocusDuration =
                                      IF @ - interval <= 0 THEN 0 ELSE @ - interval]
                   ELSE m
             cooling == m1.m_targetChangeCooldown > 0
             expired == cooling /\ m1.m_targetChangeCooldown - interval <= 0
             m2 == IF ~cooling THEN m1
                   ELSE IF expired
                   THEN [m1 EXCEPT !.m_targetChangeCooldown = 0,
                                   !.targetChangeTicks = mType.changeTargetSpeed]
                   ELSE [m1 EXCEPT !.m_targetChangeCooldown = @ - interval]
             canChangeTarget == ~focus /\ (~cooling \/ expired)
         IN IF ~canChangeTarget THEN [m |-> m2, searched |-> FALSE, reconsidered |-> FALSE]
            ELSE IF m2.targetChangeTicks + interval < mType.changeTargetSpeed
            THEN [m |-> [m2 EXCEPT !.targetChangeTicks = @ + interval], searched |-> FALSE, reconsidered |-> FALSE]
            ELSE LET m3 == [m2 EXCEPT !.targetChangeTicks = 0,
                                      !.m_targetChangeCooldown = mType.changeTargetSpeed,
                                      !.challengeFocusDuration = 0]
                 IN IF mType.changeTargetChance >= roll
                    THEN [m |-> searchTarget(m3, W, targetChangeSearchType, roll, idx),
                          searched |-> TRUE, reconsidered |-> TRUE]
                    ELSE [m |-> m3, searched |-> FALSE, reconsidered |-> TRUE]

\* onThinkYell hands a task to the thread pool; the task has not read the
\* yell accumulator yet
onThinkYell(m, interval) ==
    [m EXCEPT !.yellTasks = Append(@, [interval |-> interval, loaded |-> FALSE,
                                       sum |-> 0])]

\* what the language-model server does with a request
Replies == {"response", "timeout", "error", "no end", "no response"}

\* getAiResponse waits for the text llamaSendNpcText hands to its callback
getAiResponse(reply) ==
    CASE reply \in {"timeout", "error"} -> "Error occurred"
      [] reply = "no end" -> "Ai NPC: End of response not found."
      [] reply = "no response" -> "Ai NPC: Response not found."
      [] OTHER -> "response"

\* the yell task from the write of yellTicks += interval on, sum being the
\* value it computed from the accumulator it read
yellStore(m, sum, roll, index, reply) ==
    IF sum < mType.yellSpeedTicks
    THEN [m |-> [m EXCEPT !.yellTicks = sum], said |-> "none", text |-> ""]
    ELSE LET speaks == mType.voiceVector # << >> /\ mType.yellChance >= roll
             vb == mType.voiceVector[index]
         IN IF speaks /\ vb.yellText /\ ~mType.isAi
            THEN [m |-> [m EXCEPT !.yellTicks = 0], said |-> "yell", text |-> "voice"]
            ELSE IF speaks /\ mType.isAi
            THEN [m |-> [m EXCEPT !.yellTicks = 0], said |-> "say",
                  text |-> getAiResponse(reply)]
            ELSE [m |-> [m EXCEPT !.yellTicks = 0], said |-> "none", text |-> ""]

\* the task of onThinkYell, run by a worker of the pool with no other task
\* of the monster in between
yellTask(m, interval, roll, index, reply) ==
    IF mType.yellSpeedTicks = 0 THEN [m |-> m, said |-> "none", text |-> ""]
    ELSE yellStore(m, m.yellTicks + interval, roll, index, reply)

onThinkSound(m, interval, roll) ==
    IF mType.soundSpeedTicks = 0 THEN [m |-> m, played |-> FALSE]
    ELSE IF m.soundTicks + interval < mType.soundSpeedTicks
    THEN [m |-> [m EXCEPT !.soundTicks = @ + interval], played |-> FALSE]
    ELSE [m |-> [m EXCEPT !.soundTicks = 0],
          played |-> mType.soundVector # << >> /\ mType.soundChance >= roll]

\* onThink of an active monster from addEventWalk on
thinkActive(m, W, interval, in, steps) ==
    LET m1 == addEventWalk(m)
        type == IF isSummon(m1) THEN "none" ELSE thinkSearchType(m1, W)
        m2 == IF isSummon(m1) THEN summonThink(m1, W)
              ELSE IF type # "none" THEN searchTarget(m1, W, type, in.roll, in.idx)
              ELSE m1
        t == onThinkTarget(m2, W, interval, in.roll, in.idx)
        m3 == onThinkYell(t.m, interval)
        d == onThinkDefense(m3, interval, << in.roll >>, << in.roll >>, TRUE)
        snd == onThinkSound(d.m, interval, in.roll)
    IN [m |-> snd.m, W |-> W,
        steps |-> steps \cup {"addEventWalk", "onThinkTarget", "onThinkYell",
                              "onThinkDefense", "onThinkSound"}
                       \cup (IF type # "none" \/ t.searched THEN {"searchTarget"} ELSE {})]

\* onThink that never tests the spawn range
onThink_noRangeTest(m, W, interval, in) ==
    IF in.hook \in {"overflow", "handled"} THEN [m |-> m, W |-> W, steps |-> {}]
    ELSE LET m1 == IF m.challengeMeleeDuration = 0 THEN m
                   ELSE IF m.challengeMeleeDuration - interval <= 0
                   THEN [m EXCEPT !.challengeMeleeDuration = 0,
                                  !.targetDistance = mType.targetDistance]
                   ELSE [m EXCEPT !.challengeMeleeDuration = @ - interval]
             rm == IF in.canSpawn THEN [m |-> m1, W |-> W]
                   ELSE removeSelf(m1, W, in.notified)
             removed == IF in.canSpawn THEN {} ELSE {"removeCreature"}
             m2 == updateIdleStatus(rm.m, rm.W)
         IN IF m2.isIdle
            THEN [m |-> m2, W |-> rm.W, steps |-> removed \cup {"updateIdleStatus"}]
            ELSE thinkActive(m2, rm.W, interval, in,
                             removed \cup {"updateIdleStatus"})

onThink(m, W, interval, in) ==
    IF in.hook \in {"overflow", "handled"} THEN [m |-> m, W |-> W, steps |-> {}]
    ELSE LET m1 == IF m.challengeMeleeDuration = 0 THEN m
                   ELSE IF m.challengeMeleeDuration - interval <= 0
                   THEN [m EXCEPT !.challengeMeleeDuration = 0,
                                  !.targetDistance = mType.targetDistance]
                   ELSE [m EXCEPT !.challengeMeleeDuration = @ - interval]
             rm == IF in.canSpawn THEN [m |-> m1, W |-> W]
                   ELSE removeSelf(m1, W, in.notified)
             removed == IF in.canSpawn THEN {} ELSE {"removeCreature"}
         IN IF ~isInSpawnRange(rm.W, getPosition(rm.W))
            THEN LET t == internalTeleport(rm.m, rm.W, mType.masterPos, in.order)
                 IN [m |-> setIdle(t.m, t.W, TRUE), W |-> t.W,
                     steps |-> removed \cup {"internalTeleport", "setIdle"}]
            ELSE LET m2 == updateIdleStatus(rm.m, rm.W)
                 IN IF m2.isIdle
                    THEN [m |-> m2, W |-> rm.W, steps |-> removed \cup {"updateIdleStatus"}]
                    ELSE thinkActive(m2, rm.W, interval, in,
                                     removed \cup {"updateIdleStatus"})

\* what a tick draws: the outcome of the think hook, of canSpawn and of the
\* disappear hook, the order of the spectators, the roll and the random index
ThinkInputs ==
    [hook : IF mType.thinkEvent THEN {"overflow", "handled", "passed"} ELSE {"none"},
     canSpawn : BOOLEAN, notified : BOOLEAN,
     order : {<< Self, 1, 2, 3 >>},
     roll : {1, 100}, idx : {0}]

\* the game ticks the monsters of the active-tick set that have health left
OnThink(in) ==
    /\ Running
    /\ monster.inCreatureCheck
    /\ creatures[Self].health > 0
    /\ ~isRemoved(creatures, Self)
    /\ Len(monster.yellTasks) < MaxYellTasks
    /\ monster.totalPlayersOnScreen < MaxCounter
    /\ LET r == onThink(monster, creatures, ThinkInterval, in)
       IN /\ Commit(r.m)
          /\ creatures' = r.W
          /\ tick' = [op |-> "onThink", position |-> getPosition(creatures),
                      wasIdle |-> monster.isIdle, targetList |-> monster.targetList,
                      yellTasks |-> monster.yellTasks,
                      hook |-> in.hook, canSpawn |-> in.canSpawn, steps |-> r.steps]
    /\ UNCHANGED << mType, search, now >>

\* a worker of the pool runs one of the waiting yell tasks
YellTask(k, roll) ==
    /\ Running
    /\ k \in 1..Len(monster.yellTasks)
    /\ ~monster.yellTasks[k].loaded
    /\ LET rest == [monster EXCEPT !.yellTasks = SubSeq(@, 1, k - 1)
                                                 \o SubSeq(@, k + 1, Len(@))]
           r == yellTask(rest, monster.yellTasks[k].interval, roll, 1, "response")
       IN /\ monster' = r.m
          /\ tick' = [op |-> "yellTask", said |-> r.said]
    /\ UNCHANGED << creatures, mType, search, now >>

\* a worker starts a waiting yell task: the task returns at once under a
\* yell speed of 0 and else reads the accumulator for yellTicks += interval
YellLoad(k) ==
    /\ Running
    /\ k \in 1..Len(monster.yellTasks)
    /\ ~monster.yellTasks[k].loaded
    /\ monster' = IF mType.yellSpeedTicks = 0
                  THEN [monster EXCEPT !.yellTasks = SubSeq(@, 1, k - 1)
                                                     \o SubSeq(@, k + 1, Len(@))]
                  ELSE [monster EXCEPT !.yellTasks[k].loaded = TRUE,
                                       !.yellTasks[k].sum = monster.yellTicks
                                                            + monster.yellTasks[k].interval]
    /\ tick' = [op |-> "yellLoad", yellTicks |-> monster.yellTicks]
    /\ UNCHANGED << creatures, mType, search, now >>

\* the worker writes the accumulator and runs the task to its end
YellStore(k, roll, reply) ==
    /\ Running
    /\ k \in 1..Len(monster.yellTasks)
    /\ monster.yellTasks[k].loaded
    /\ LET rest == [monster EXCEPT !.yellTasks = SubSeq(@, 1, k - 1)
                                                 \o SubSeq(@, k + 1, Len(@))]
           r == yellStore(rest, monster.yellTasks[k].sum, roll, 1, reply)
       IN /\ monster' = r.m
          /\ tick' = [op |-> "yellStore", said |-> r.said, text |-> r.text,
                      reply |-> reply,
                      yellTicks |-> monster.yellTicks,
                      health |-> creatures[Self].health, isDead |-> monster.isDead]
    /\ UNCHANGED << creatures, mType, search, now >>

\* templates that yell every second tick, with a voice line that is or is
\* not a yell, with and without the language-model server
YellTypes ==
    {[MonsterType(Null, FACTION_DEFAULT, TRUE) EXCEPT
         !.yellSpeedTicks = 2 * ThinkInterval, !.yellChance = 50,
         !.voiceVector = << [yellText |-> yell] >>, !.isAi = ai] :
       yell \in BOOLEAN, ai \in BOOLEAN}

\* what the ticks of the yell specification draw
YellThinkInputs ==
    [hook : {"none"}, canSpawn : {TRUE}, notified : {TRUE},
     order : {<< Self, 1, 2, 3 >>}, roll : {100}, idx : {0}]

\* an active monster on its spawn with a player next to it
InitYell ==
    /\ mType \in YellTypes
    /\ creatures = [c \in AllCreatures |->
                       CASE c = Self -> Creature(SpawnPos, MaxHealth, mType.faction)
                         [] c = 1 -> Creature(NearPos, MaxHealth, FACTION_PLAYER)
                         [] OTHER -> Expired]
    /\ monster = ActiveMonster(<< 1 >>, << >>)
    /\ search = NoSearch
    /\ now = 0
    /\ tick = NoTick

NextYell ==
    \/ \E in \in YellThinkInputs : OnThink(in)
    \/ \E k \in 1..MaxYellTasks : YellLoad(k)
    \/ \E k \in 1..MaxYellTasks, roll \in {1, 100}, reply \in Replies :
          YellStore(k, roll, reply)
    \/ ChangeHealthSelf(0)
    \/ Death

SpecYell == InitYell /\ [][NextYell]_vars

\* ---- Yelling: the workers of the thread pool ----

\* the pool has up to PoolWorkers workers
PoolWorkers == 2
\* yell tasks handed to the pool: with a yell every second tick, enough for
\* every worker to reach the language-model request
PoolTasks == 2 * PoolWorkers

\* the pool before any task: each worker is free, the queue is empty, no task
\* was handed in and no text of the language model was said
NewPool(n) ==
    [op |-> "pool", worker |-> [w \in 1..n |-> "free"], queue |-> << >>, posted |-> 0,
     said |-> 0]

\* onThinkYell: detach_task puts the yell task at the end of the queue
PoolThinkYell(interval) ==
    /\ Running
    /\ tick.posted < PoolTasks
    /\ tick' = [tick EXCEPT !.queue = Append(@, [kind |-> "yell", interval |-> interval,
                                                 waiter |-> 0]),
                            !.posted = @ + 1]
    /\ UNCHANGED << creatures, mType, monster, search, now >>

\* a free worker takes the first task of the queue. A yell task runs to its
\* end, or up to getAiResponse, which queues the request of llamaSendNpcText
\* on the same pool and waits for its promise. A request task runs to its
\* end and hands the text to the promise of the worker that waits for it
PoolTake(w, roll) ==
    /\ Running
    /\ tick.queue # << >>
    /\ tick.worker[w] = "free"
    /\ LET task == Head(tick.queue)
           r == yellTask(monster, task.interval, roll, 1, "response")
       IN IF task.kind = "yell"
          THEN /\ monster' = r.m
               /\ tick' = IF r.said = "say"
                          THEN [tick EXCEPT
                                   !.worker[w] = "waiting",
                                   !.queue = Append(Tail(@), [kind |-> "request",
                                                              interval |-> 0,
                                                              waiter |-> w])]
                          ELSE [tick EXCEPT !.queue = Tail(@)]
          ELSE /\ monster' = monster
               /\ tick' = [tick EXCEPT !.worker[task.waiter] = "ready",
                                       !.queue = Tail(@)]
    /\ UNCHANGED << creatures, mType, search, now >>

\* future.get() returns: the yell task says the text and ends
PoolResume(w) ==
    /\ Running
    /\ tick.worker[w] = "ready"
    /\ tick' = [tick EXCEPT !.worker[w] = "free", !.said = @ + 1]
    /\ UNCHANGED << creatures, mType, monster, search, now >>

\* an active monster and a pool of one or more workers
InitPool ==
    /\ mType \in YellTypes
    /\ creatures = [c \in AllCreatures |->
                       CASE c = Self -> Creature(SpawnPos, MaxHealth, mType.faction)
                         [] c = 1 -> Creature(NearPos, MaxHealth, FACTION_PLAYER)
                         [] OTHER -> Expired]
    /\ monster = ActiveMonster(<< 1 >>, << >>)
    /\ search = NoSearch
    /\ now = 0
    /\ \E n \in 1..PoolWorkers : tick = NewPool(n)

PoolPost == PoolThinkYell(ThinkInterval)
PoolRun == \E w \in DOMAIN tick.worker, roll \in {1, 100} : PoolTake(w, roll)
PoolWake == \E w \in DOMAIN tick.worker : PoolResume(w)

NextPool == PoolPost \/ PoolRun \/ PoolWake

\* a worker that can take a task or go on does so
SpecPool == InitPool /\ [][NextPool]_vars /\ WF_vars(PoolRun) /\ WF_vars(PoolWake)

Min(a, b) == IF a < b THEN a ELSE b

\* the tick time accumulated since the last reconsideration, counted up to
\* the change-target speed, and whether there has been a reconsideration
sinceReconsidered == IF tick.op = "onThinkTarget" THEN tick.since ELSE 0
hasReconsidered == tick.op = "onThinkTarget" /\ (tick.seen \/ tick.reconsidered)

\* the target-change governor of one tick
OnThinkTarget(interval, roll, idx) ==
    /\ Running
    /\ LET r == onThinkTarget(monster, creatures, interval, roll, idx)
           gap == Min(sinceReconsidered + interval, mType.changeTargetSpeed)
       IN /\ Commit(r.m)
          /\ tick' = [op |-> "onThinkTarget",
                      focus |-> monster.challengeFocusDuration,
                      reconsidered |-> r.reconsidered, seen |-> hasReconsidered,
                      targetDistance |-> monster.targetDistance,
                      searchType |-> IF r.searched THEN targetChangeSearchType
                                     ELSE "none",
                      gap |-> gap,
                      since |-> IF r.reconsidered THEN 0 ELSE gap]
    /\ UNCHANGED << creatures, mType, search, now >>

\* wild monsters and a summon with change-target speed 0, 20 and 30, melee
\* and keeping a distance of 3
TargetTypes ==
    {[MonsterType(master, FACTION_DEFAULT, TRUE) EXCEPT
         !.changeTargetSpeed = speed * ThinkInterval, !.changeTargetChance = 50,
         !.targetDistance = distance] :
       master \in {Null, 2}, speed \in {0, 2, 3}, distance \in {1, 3}}

\* the focus lock of a challenge lasts into the second tick
FocusDuration == ThinkInterval + MaxCooldown

InitTarget ==
    /\ mType \in TargetTypes
    /\ creatures = [c \in AllCreatures |->
                       CASE c = Self -> Creature(SpawnPos, MaxHealth, mType.faction)
                         [] c = 1 -> Creature(NearPos, MaxHealth, FACTION_PLAYER)
                         [] c = 2 -> [Creature(NearPos, MaxHealth, FACTION_DEFAULT)
                                         EXCEPT !.attackedCreature = 1]
                         [] OTHER -> Expired]
    /\ \E tl \in {<< >>, << 1 >>} : monster = ActiveMonster(tl, << >>)
    /\ search = NoSearch
    /\ now = 0
    /\ tick = NoTick

TargetTick == \E roll \in {1, 100} : OnThinkTarget(ThinkInterval, roll, 0)

NextTarget ==
    \/ TargetTick
    \/ \E roll \in {1, 100} : OnThinkTarget(2 * ThinkInterval, roll, 0)
    \/ ChallengeCreature(1, FocusDuration)
    \/ \E newPos \in {NearPos, Dist5Pos} : OnCreatureMove(1, newPos)

\* the game keeps ticking the monster
SpecTarget == InitTarget /\ [][NextTarget]_vars /\ WF_vars(TargetTick)

\* the monster is pushed or walks to another tile
HighPos == Pos(1, 1, 2)
ThinkPositions == {SpawnPos, OffSpawnPos, EdgePos, HighPos}

\* wild monsters and a summon, with and without a think hook, under a
\* despawn radius of 1 and a despawn range of 0 or 1
ThinkTypes ==
    {[MonsterType(master, faction, TRUE) EXCEPT
         !.thinkEvent = hook, !.despawnRadius = 1, !.despawnRange = range,
         !.changeTargetSpeed = 2 * ThinkInterval, !.changeTargetChance = 50,
         !.yellSpeedTicks = 2 * ThinkInterval, !.yellChance = 50,
         !.voiceVector = << [yellText |-> TRUE] >>,
         !.soundSpeedTicks = 2 * ThinkInterval, !.soundChance = 50,
         !.soundVector = << "growl" >>] :
       master \in {Null, 2}, faction \in {FACTION_DEFAULT}, hook \in BOOLEAN,
       range \in {0, 1}}

InitThink ==
    /\ mType \in ThinkTypes
    /\ \E p \in ThinkPositions :
          creatures = [c \in AllCreatures |->
                          CASE c = Self -> Creature(p, MaxHealth, mType.faction)
                            [] c = 1 -> Creature(NearPos, MaxHealth, FACTION_PLAYER)
                            [] c = 2 -> [Creature(NearPos, MaxHealth, FACTION_DEFAULT)
                                            EXCEPT !.attackedCreature = 1]
                            [] OTHER -> Expired]
    /\ \E tl \in {<< >>, << 1 >>} : monster = ActiveMonster(tl, << >>)
    /\ search = NoSearch
    /\ now = 0
    /\ tick = NoTick

NextThink ==
    \/ \E in \in ThinkInputs : OnThink(in)
    \/ \E k \in 1..MaxYellTasks, roll \in {1, 100} : YellTask(k, roll)
    \/ \E newPos \in ThinkPositions : OnCreatureMoveSelf(newPos)
    \/ \E found \in BOOLEAN : SetFollowPath(found)

SpecThink == InitThink /\ [][NextThink]_vars

----------------------------------------------------------------------------
(* Movement: the dance step around the attacked creature *)

\* the attacked creature stands at most DanceRange tiles away
DanceRange == 3

DIRECTION_NORTH == "north"
DIRECTION_SOUTH == "south"
DIRECTION_EAST == "east"
DIRECTION_WEST == "west"
DIRECTION_SOUTHWEST == "southwest"
DIRECTION_SOUTHEAST == "southeast"
DIRECTION_NORTHWEST == "northwest"
DIRECTION_NORTHEAST == "northeast"

getNextPosition(direction, pos) ==
    CASE direction = DIRECTION_NORTH -> [pos EXCEPT !.y = @ - 1]
      [] direction = DIRECTION_SOUTH -> [pos EXCEPT !.y = @ + 1]
      [] direction = DIRECTION_EAST -> [pos EXCEPT !.x = @ + 1]
      [] direction = DIRECTION_WEST -> [pos EXCEPT !.x = @ - 1]
      [] direction = DIRECTION_SOUTHWEST -> [pos EXCEPT !.x = @ - 1, !.y = @ + 1]
      [] direction = DIRECTION_SOUTHEAST -> [pos EXCEPT !.x = @ + 1, !.y = @ + 1]
      [] direction = DIRECTION_NORTHWEST -> [pos EXCEPT !.x = @ - 1, !.y = @ - 1]
      [] direction = DIRECTION_NORTHEAST -> [pos EXCEPT !.x = @ + 1, !.y = @ - 1]

\* the tile is in spawn range, in the walk cache and holds no creature
canWalkTo(m, W, pos, moveDirection) ==
    LET next == getNextPosition(moveDirection, pos)
    IN IF isInSpawnRange(W, next)
       THEN IF next \notin m.walkCache THEN FALSE
            ELSE \A c \in AllCreatures : ~(W[c].life = "world" /\ W[c].pos = next)
       ELSE FALSE

\* the side test that keepDistance puts before each direction
danceSide(direction, offset_x, offset_y) ==
    CASE direction = DIRECTION_NORTH -> offset_y >= 0
      [] direction = DIRECTION_SOUTH -> offset_y <= 0
      [] direction = DIRECTION_EAST -> offset_x <= 0
      [] direction = DIRECTION_WEST -> offset_x >= 0

\* the direction test that forgets to ask canWalkTo
danceQualifies_noWalkTest(m, W, creaturePos, direction, keepAttack) ==
    LET attackedCreature == m.attackedCreature
        centerPos == W[attackedCreature].pos
        next == getNextPosition(direction, creaturePos)
        centerToDist == Max(getDistanceX(creaturePos, centerPos),
                            getDistanceY(creaturePos, centerPos))
        tmpDist == Max(getDistanceX(next, centerPos), getDistanceY(next, centerPos))
        canDoAttackNow == canUseAttack(m, W, creaturePos, attackedCreature)
    IN /\ tmpDist = centerToDist
       /\ keepAttack => (~canDoAttackNow \/ canUseAttack(m, W, next, attackedCreature))

\* the test of one direction: same distance, walkable, and the attack kept
danceQualifies(m, W, creaturePos, direction, keepAttack) ==
    LET attackedCreature == m.attackedCreature
        centerPos == W[attackedCreature].pos
        next == getNextPosition(direction, creaturePos)
        centerToDist == Max(getDistanceX(creaturePos, centerPos),
                            getDistanceY(creaturePos, centerPos))
        tmpDist == Max(getDistanceX(next, centerPos), getDistanceY(next, centerPos))
        canDoAttackNow == canUseAttack(m, W, creaturePos, attackedCreature)
    IN /\ tmpDist = centerToDist
       /\ canWalkTo(m, W, creaturePos, direction)
       /\ keepAttack => (~canDoAttackNow \/ canUseAttack(m, W, next, attackedCreature))

\* getDanceStep that dances at any distance from the attacked creature
getDanceStep_anyDistance(m, W, creaturePos, keepAttack, keepDistance) ==
    LET attackedCreature == m.attackedCreature
    IN IF attackedCreature = Null \/ ~lock(W, attackedCreature)
       THEN [ret |-> FALSE, dirList |-> << >>]
       ELSE LET centerPos == W[attackedCreature].pos
                offset_x == creaturePos.x - centerPos.x
                offset_y == creaturePos.y - centerPos.y
                dirList == SelectSeq(<< DIRECTION_NORTH, DIRECTION_SOUTH,
                                        DIRECTION_EAST, DIRECTION_WEST >>,
                              LAMBDA d :
                                 /\ ~keepDistance \/ danceSide(d, offset_x, offset_y)
                                 /\ danceQualifies(m, W, creaturePos, d, keepAttack))
            IN [ret |-> dirList # << >>, dirList |-> dirList]

\* the result and the list the returned direction is drawn from
getDanceStep(m, W, creaturePos, keepAttack, keepDistance) ==
    LET attackedCreature == m.attackedCreature
    IN IF attackedCreature = Null \/ ~lock(W, attackedCreature)
       THEN [ret |-> FALSE, dirList |-> << >>]
       ELSE LET centerPos == W[attackedCreature].pos
                offset_x == creaturePos.x - centerPos.x
                offset_y == creaturePos.y - centerPos.y
                centerToDist == Max(Abs(offset_x), Abs(offset_y))
                dirList == SelectSeq(<< DIRECTION_NORTH, DIRECTION_SOUTH,
                                        DIRECTION_EAST, DIRECTION_WEST >>,
                              LAMBDA d :
                                 /\ ~keepDistance \/ danceSide(d, offset_x, offset_y)
                                 /\ danceQualifies(m, W, creaturePos, d, keepAttack))
            IN IF centerToDist < m.targetDistance
               THEN [ret |-> FALSE, dirList |-> << >>]
               ELSE [ret |-> dirList # << >>, dirList |-> dirList]

\* index: the draw from the shuffled list
GetDanceStep(keepAttack, keepDistance, index) ==
    /\ Running
    /\ LET r == getDanceStep(monster, creatures, getPosition(creatures),
                             keepAttack, keepDistance)
       IN /\ index \in 1..Max(1, Len(r.dirList))
          /\ tick' = [op |-> "getDanceStep", ret |-> r.ret, dirList |-> r.dirList,
                      moveDirection |-> IF r.ret THEN r.dirList[index] ELSE "none",
                      keepAttack |-> keepAttack, keepDistance |-> keepDistance]
    /\ UNCHANGED << creatures, mType, monster, search, now >>

\* the monster walks the step it was given
WalkDanceStep ==
    /\ Running
    /\ tick.op = "getDanceStep" /\ tick.ret
    /\ creatures' = [creatures EXCEPT
                         ![Self].pos = getNextPosition(tick.moveDirection, @)]
    /\ tick' = NoTick
    /\ UNCHANGED << mType, monster, search, now >>

DancePos == Pos(DanceRange + 2, DanceRange + 2, 0)
Neighbours(pos) ==
    {getNextPosition(d, pos) :
        d \in {DIRECTION_NORTH, DIRECTION_SOUTH, DIRECTION_EAST, DIRECTION_WEST}}

\* where the attacked creature stands: next to the monster, two tiles
\* away, and DanceRange tiles away on each side and on a diagonal
DanceTargets ==
    {Pos(DancePos.x + dx, DancePos.y + dy, 0) :
        dx \in {0 - DanceRange, 0, 1, DanceRange}, dy \in {0 - DanceRange, 0, 2, DanceRange}}
        \ {DancePos}

DanceTypes ==
    {[MonsterType(Null, FACTION_DEFAULT, TRUE) EXCEPT
         !.masterPos = DancePos, !.despawnRadius = radius,
         !.targetDistance = distance, !.attackSpells = spells] :
       radius \in {0, 1}, distance \in {1, DanceRange},
       spells \in {<< MeleeSpell >>, << RangedSpell >>}}

InitDance ==
    /\ mType \in DanceTypes
    /\ \E targetPos \in DanceTargets,
             blocker \in {getNextPosition(DIRECTION_NORTH, DancePos), Origin} :
          creatures = [c \in AllCreatures |->
                          CASE c = Self -> Creature(DancePos, MaxHealth, mType.faction)
                            [] c = 1 -> Creature(targetPos, MaxHealth, FACTION_PLAYER)
                            [] c = 2 -> Creature(blocker, MaxHealth, FACTION_DEFAULT)
                            [] OTHER -> Expired]
    /\ \E cache \in SUBSET Neighbours(DancePos), attacked \in {Null, 1} :
          monster = [ActiveMonster(<< 1 >>, << >>) EXCEPT
                        !.attackedCreature = attacked, !.followCreature = attacked,
                        !.walkCache = cache \cup {DancePos}]
    /\ search = NoSearch
    /\ now = 0
    /\ tick = NoTick

NextDance ==
    \/ \E keepAttack \in BOOLEAN, keepDistance \in BOOLEAN, index \in 1..4 :
          GetDanceStep(keepAttack, keepDistance, index)
    \/ WalkDanceStep

SpecDance == InitDance /\ [][NextDance]_vars

----------------------------------------------------------------------------
(* Movement: the three modes of getNextStep *)

\* Creature::getNextStep: the next direction of the walk list, if any
creatureGetNextStep(m) ==
    IF m.listWalkDir = << >> THEN [m |-> m, ret |-> FALSE, dir |-> "none"]
    ELSE [m |-> [m EXCEPT !.listWalkDir = Tail(@)], ret |-> TRUE,
          dir |-> Head(m.listWalkDir)]

\* Creature::startAutoWalk: the walk list is replaced and a walk event set
startAutoWalk(m, listDir) == addEventWalk([m EXCEPT !.listWalkDir = listDir])

\* the tiles of the model hold no fields: the cache stays as it is
updateMapCache(m) == m

\* getRandomStep: the first walkable direction of the shuffled list
getRandomStep(m, W, creaturePos, shuffled) ==
    LET walkable == SelectSeq(shuffled, LAMBDA d : canWalkTo(m, W, creaturePos, d))
    IN IF walkable = << >> THEN [ret |-> FALSE, dir |-> "none"]
       ELSE [ret |-> TRUE, dir |-> Head(walkable)]

doFollowCreature(m, W, in) ==
    LET m0 == [m EXCEPT !.randomStepping = FALSE]
        step == creatureGetNextStep(m0)
    IN IF step.ret THEN [m |-> step.m, ret |-> TRUE, dir |-> step.dir]
       ELSE LET m1 == IF m0.ignoreFieldDamage
                      THEN updateMapCache([m0 EXCEPT !.ignoreFieldDamage = FALSE])
                      ELSE m0
                attackedCreature == m1.attackedCreature
                dancing == /\ attackedCreature # Null
                           /\ lock(W, attackedCreature)
                           /\ attackedCreature = m1.followCreature
                dance == IF isFleeing(m1, W)
                         THEN getDanceStep(m1, W, getPosition(W), FALSE, FALSE)
                         ELSE IF mType.staticAttackChance < in.roll
                         THEN getDanceStep(m1, W, getPosition(W), TRUE, TRUE)
                         ELSE [ret |-> FALSE, dirList |-> << >>]
            IN IF dancing /\ dance.ret
               THEN [m |-> m1, ret |-> TRUE,
                     dir |-> dance.dirList[(in.index % Len(dance.dirList)) + 1]]
               ELSE [m |-> m1, ret |-> FALSE, dir |-> "none"]

\* a walk back that gives up instead of asking for a path
doWalkBack_givesUp(m, W, in) ==
    LET step == creatureGetNextStep(m)
    IN IF step.ret THEN [m |-> step.m, ret |-> TRUE, dir |-> step.dir]
       ELSE [m |-> [m EXCEPT !.isWalkingBack =
                       chebyshev(getPosition(W), mType.masterPos) # 0 /\ in.path # << >>],
             ret |-> FALSE, dir |-> "none"]

doWalkBack(m, W, in) ==
    LET step == creatureGetNextStep(m)
    IN IF step.ret THEN [m |-> step.m, ret |-> TRUE, dir |-> step.dir]
       ELSE LET m1 == IF m.ignoreFieldDamage
                      THEN updateMapCache([m EXCEPT !.ignoreFieldDamage = FALSE])
                      ELSE m
                distance == chebyshev(getPosition(W), mType.masterPos)
            IN IF distance = 0 \/ in.path = << >>
               THEN [m |-> [m1 EXCEPT !.isWalkingBack = FALSE], ret |-> FALSE, dir |-> "none"]
               ELSE [m |-> startAutoWalk(m1, in.path), ret |-> FALSE, dir |-> "none"]

doRandomStep(m, W, in) ==
    IF in.timeSinceLastMove >= 1000
    THEN LET r == getRandomStep(m, W, getPosition(W), in.shuffled)
         IN [m |-> [m EXCEPT !.randomStepping = TRUE], ret |-> r.ret, dir |-> r.dir]
    ELSE [m |-> m, ret |-> FALSE, dir |-> "none"]

\* pushCreatures: each monster on the tile is moved to a neighbouring tile
\* or, if it cannot be moved, loses all its health
pushCreatures(W, tile, in) ==
    [c \in AllCreatures |->
        IF c # Self /\ isMonster(c) /\ W[c].life = "world" /\ W[c].pos = tile
        THEN IF in.pushed THEN [W[c] EXCEPT !.pos = getNextPosition(in.pushDir, tile)]
             ELSE changeHealth(W[c], 0 - W[c].health)
        ELSE W[c]]

\* getNextStep that walks on at health 0
getNextStep_noHealthTest(m, W, in) ==
    IF m.isIdle
    THEN [m |-> [m EXCEPT !.eventWalk = FALSE], W |-> W, ret |-> FALSE,
          dir |-> "none", modes |-> {}]
    ELSE LET follow == /\ m.followCreature # Null
                       /\ lock(W, m.followCreature)
                       /\ m.hasFollowPath
             r == IF follow THEN doFollowCreature(m, W, in)
                  ELSE IF m.isWalkingBack THEN doWalkBack(m, W, in)
                  ELSE doRandomStep(m, W, in)
             modes == IF follow THEN {"follow"}
                      ELSE IF m.isWalkingBack THEN {"walkBack"}
                      ELSE {"random"}
             W1 == IF r.ret /\ mType.canPushCreatures
                   THEN pushCreatures(W, getNextPosition(r.dir, getPosition(W)), in)
                   ELSE W
         IN [m |-> r.m, W |-> W1, ret |-> r.ret, dir |-> r.dir, modes |-> modes]

getNextStep(m, W, in) ==
    IF m.isIdle \/ W[Self].health <= 0
    THEN [m |-> [m EXCEPT !.eventWalk = FALSE], W |-> W, ret |-> FALSE,
          dir |-> "none", modes |-> {}]
    ELSE LET follow == /\ m.followCreature # Null
                       /\ lock(W, m.followCreature)
                       /\ m.hasFollowPath
             r == IF follow THEN doFollowCreature(m, W, in)
                  ELSE IF m.isWalkingBack THEN doWalkBack(m, W, in)
                  ELSE doRandomStep(m, W, in)
             modes == IF follow THEN {"follow"}
                      ELSE IF m.isWalkingBack THEN {"walkBack"}
                      ELSE {"random"}
             W1 == IF r.ret /\ mType.canPushCreatures
                   THEN pushCreatures(W, getNextPosition(r.dir, getPosition(W)), in)
                   ELSE W
         IN [m |-> r.m, W |-> W1, ret |-> r.ret, dir |-> r.dir, modes |-> modes]

\* what a call draws: the roll against the static attack chance, the random
\* pick, the shuffle, the path to the anchor, the time since the last
\* move, and the outcome of pushing a monster off the tile
StepInputs ==
    [roll : {1, 100}, index : {0, 1},
     shuffled : {<< DIRECTION_NORTH, DIRECTION_WEST, DIRECTION_EAST, DIRECTION_SOUTH >>,
                 << DIRECTION_SOUTH, DIRECTION_EAST, DIRECTION_WEST, DIRECTION_NORTH >>},
     path : {<< >>, << DIRECTION_WEST >>},
     timeSinceLastMove : {0, 1000},
     pushed : BOOLEAN, pushDir : {DIRECTION_EAST}]

\* the walk event of the monster fires
GetNextStep(in) ==
    /\ Running
    /\ LET r == getNextStep(monster, creatures, in)
       IN /\ monster' = r.m
          /\ creatures' = r.W
          /\ tick' = [op |-> "getNextStep", ret |-> r.ret, dir |-> r.dir,
                      modes |-> r.modes, wasIdle |-> monster.isIdle,
                      health |-> creatures[Self].health,
                      eventWalk |-> monster.eventWalk]
    /\ UNCHANGED << mType, search, now >>

\* the monster takes the step it was given, within the tiles it knows
WalkNextStep ==
    /\ Running
    /\ tick.op = "getNextStep" /\ tick.ret
    /\ getNextPosition(tick.dir, getPosition(creatures)) \in monster.walkCache
    /\ creatures' = [creatures EXCEPT ![Self].pos = getNextPosition(tick.dir, @)]
    /\ tick' = NoTick
    /\ UNCHANGED << mType, monster, search, now >>

StepTypes ==
    {[MonsterType(Null, FACTION_DEFAULT, TRUE) EXCEPT
         !.masterPos = DancePos, !.targetDistance = DanceRange,
         !.attackSpells = << RangedSpell >>, !.runAwayHealth = 1,
         !.canPushCreatures = push] : push \in BOOLEAN}

\* an idle or active monster, alive or at health 0, on or next to its
\* anchor, with or without a creature to follow, a path and a walk list
InitStep ==
    /\ mType \in StepTypes
    /\ \E p \in {DancePos, getNextPosition(DIRECTION_EAST, DancePos)},
          h \in {0, 1, MaxHealth} :
          creatures = [c \in AllCreatures |->
                          CASE c = Self -> Creature(p, h, mType.faction)
                            [] c = 1 -> Creature(Pos(DancePos.x, DancePos.y + DanceRange, 0),
                                                 MaxHealth, FACTION_PLAYER)
                            [] c = 2 -> Creature(getNextPosition(DIRECTION_WEST, DancePos),
                                                 MaxHealth, FACTION_DEFAULT)
                            [] OTHER -> Expired]
    /\ \E follow \in {Null, 1}, path \in BOOLEAN, back \in BOOLEAN, idle \in BOOLEAN,
          list \in {<< >>, << DIRECTION_WEST >>} :
          monster = [ActiveMonster(IF idle THEN << >> ELSE << 1 >>, << >>) EXCEPT
                        !.isIdle = idle, !.inCreatureCheck = ~idle,
                        !.attackedCreature = follow, !.followCreature = follow,
                        !.hasFollowPath = path, !.isWalkingBack = back,
                        !.listWalkDir = list, !.eventWalk = TRUE,
                        !.walkCache = Neighbours(DancePos) \cup {DancePos}]
    /\ search = NoSearch
    /\ now = 0
    /\ tick = NoTick

NextStep ==
    \/ \E in \in StepInputs : GetNextStep(in)
    \/ WalkNextStep
    \/ \E found \in BOOLEAN : SetFollowPath(found)

SpecStep == InitStep /\ [][NextStep]_vars

\* getPathTo when the path solver finds a path: the directions of a shortest
\* walk over the four sides from one position to another, first along x
getPathTo(from, to) ==
    LET dx == getDistanceX(from, to)
        dy == getDistanceY(from, to)
    IN [i \in 1..(dx + dy) |->
           IF i <= dx
           THEN IF from.x > to.x THEN DIRECTION_WEST ELSE DIRECTION_EAST
           ELSE IF from.y > to.y THEN DIRECTION_NORTH ELSE DIRECTION_SOUTH]

\* what a walk event draws while the path solver finds the way home
WalkBackInputs ==
    [roll : {1}, index : {0},
     shuffled : {<< DIRECTION_NORTH, DIRECTION_WEST, DIRECTION_EAST, DIRECTION_SOUTH >>},
     path : {getPathTo(getPosition(creatures), mType.masterPos)},
     timeSinceLastMove : {1000}, pushed : {FALSE}, pushDir : {DIRECTION_EAST}]

\* Creature::onWalk: the scheduled walk event asks getNextStep for a
\* direction and moves the monster there (no step is rejected); the event is
\* scheduled again after a step and stopped when there is no step to take
OnWalk(in) ==
    /\ Running
    /\ monster.eventWalk
    /\ LET r == getNextStep(monster, creatures, in)
       IN /\ monster' = [r.m EXCEPT !.eventWalk = r.ret]
          /\ creatures' = [r.W EXCEPT ![Self].pos = IF r.ret THEN getNextPosition(r.dir, @)
                                                      ELSE @]
          /\ tick' = [op |-> "onWalk", ret |-> r.ret, dir |-> r.dir, modes |-> r.modes,
                      wasWalkingBack |-> monster.isWalkingBack,
                      position |-> getPosition(creatures)]
    /\ UNCHANGED << mType, search, now >>

\* spawned monsters with an anchor, with and without a despawn radius of 1
WalkBackTypes ==
    {[MonsterType(Null, FACTION_DEFAULT, TRUE) EXCEPT
         !.masterPos = DancePos, !.despawnRadius = radius] : radius \in {0, 1}}

\* the tiles the monster may stand on: up to two tiles east and south of
\* its anchor
WalkBackTiles ==
    {Pos(DancePos.x + dx, DancePos.y + dy, 0) : dx \in 0..2, dy \in 0..2}

\* an active monster with no targets, on or off its anchor, nobody in view
InitWalkBack ==
    /\ mType \in WalkBackTypes
    /\ \E p \in WalkBackTiles :
          creatures = [c \in AllCreatures |->
                          IF c = Self THEN Creature(p, MaxHealth, mType.faction)
                          ELSE Expired]
    /\ \E back \in BOOLEAN, list \in {<< >>, << DIRECTION_EAST >>} :
          monster = [ActiveMonster(<< >>, << >>) EXCEPT
                        !.isWalkingBack = back, !.listWalkDir = list,
                        !.walkCache = WalkBackTiles]
    /\ search = NoSearch
    /\ now = 0
    /\ tick = NoTick

WalkBackTick == \E in \in YellThinkInputs : OnThink(in)
WalkBackWalk == \E in \in WalkBackInputs : OnWalk(in)
WalkBackYell == \E k \in 1..MaxYellTasks : YellTask(k, 100)

NextWalkBack == WalkBackTick \/ WalkBackWalk \/ WalkBackYell

\* the game keeps ticking the monster, firing its walk event and running
\* the tasks of the pool
SpecWalkBack ==
    InitWalkBack /\ [][NextWalkBack]_vars
       /\ WF_vars(WalkBackTick) /\ WF_vars(WalkBackWalk) /\ WF_vars(WalkBackYell)

\* ---- Movement: shoving the creatures of the destination tile ----

\* what a push of one creature can do: move it to the next tile, report
\* success with the creature still on its tile, or fail in every direction
PushOutcomes == {"moved", "stays", "blocked"}

\* pushCreature: the first direction of the shuffled list whose tile is free
\* and whose move is reported as done
pushCreature(W, c, out, dir) ==
    [W |-> IF out = "moved"
           THEN [W EXCEPT ![c].pos = getNextPosition(dir, W[c].pos)]
           ELSE W,
     ret |-> out # "blocked"]

\* no loop runs longer than this many iterations
IterationCap == 2 * Cardinality(Others) + 2

\* the loop of pushCreatures before its first iteration: the creature vector
\* of the tile, the index, the monster pushed last and the removal count
pushCreaturesBegin(tile, content, pushable) ==
    [op |-> "pushCreatures", tile |-> tile, content |-> content,
     initial |-> content, pushable |-> pushable,
     i |-> 0, lastPushedMonster |-> Null, removeCount |-> 0,
     iterations |-> 0, done |-> FALSE]

\* one pushCreatures that always tries to push again
pushCreaturesLoop_retries(st, W, out, dir) ==
    IF st.i >= Len(st.content)
    THEN [st |-> [st EXCEPT !.done = TRUE], W |-> W]
    ELSE LET c == st.content[st.i + 1]
             r == pushCreature(W, c, out, dir)
             counted == [st EXCEPT !.iterations = Min(st.iterations + 1, IterationCap)]
         IN IF isMonster(c) /\ c \in st.pushable
            THEN IF r.ret
                 THEN [st |-> [counted EXCEPT
                                  !.lastPushedMonster = c,
                                  !.content = IF out = "moved"
                                              THEN SelectSeq(st.content, LAMBDA d : d # c)
                                              ELSE st.content],
                       W |-> r.W]
                 ELSE [st |-> [counted EXCEPT !.removeCount = st.removeCount + 1,
                                              !.i = st.i + 1],
                       W |-> [W EXCEPT ![c] = changeHealth(W[c], 0 - W[c].health)]]
            ELSE [st |-> [counted EXCEPT !.i = st.i + 1], W |-> W]

\* one test of the loop condition of pushCreatures and, if it holds, one
\* iteration: a pushable monster other than the one pushed last is pushed
\* and, if the push reports success, met again at the same index; any other
\* pushable monster loses all its health
pushCreaturesLoop(st, W, out, dir) ==
    IF st.i >= Len(st.content)
    THEN [st |-> [st EXCEPT !.done = TRUE], W |-> W]
    ELSE LET c == st.content[st.i + 1]
             r == pushCreature(W, c, out, dir)
             counted == [st EXCEPT !.iterations = Min(st.iterations + 1, IterationCap)]
         IN IF isMonster(c) /\ c \in st.pushable
            THEN IF c # st.lastPushedMonster /\ r.ret
                 THEN [st |-> [counted EXCEPT
                                  !.lastPushedMonster = c,
                                  !.content = IF out = "moved"
                                              THEN SelectSeq(st.content, LAMBDA d : d # c)
                                              ELSE st.content],
                       W |-> r.W]
                 ELSE [st |-> [counted EXCEPT !.removeCount = st.removeCount + 1,
                                              !.i = st.i + 1],
                       W |-> [W EXCEPT ![c] = changeHealth(W[c], 0 - W[c].health)]]
            ELSE [st |-> [counted EXCEPT !.i = st.i + 1], W |-> W]

\* the tile the monster steps on
PushTile == getNextPosition(DIRECTION_EAST, DancePos)
OnTile(W, tile) == {c \in Others : W[c].life = "world" /\ W[c].pos = tile}

\* pushCreatures is entered with the creature vector of the tile
PushCreatures(content, pushable) ==
    /\ Running
    /\ tick.op = "none"
    /\ tick' = pushCreaturesBegin(PushTile, content, pushable)
    /\ UNCHANGED << creatures, mType, monster, search, now >>

PushCreaturesLoop(out, dir) ==
    /\ Running
    /\ tick.op = "pushCreatures" /\ ~tick.done
    /\ LET r == pushCreaturesLoop(tick, creatures, out, dir)
       IN tick' = r.st /\ creatures' = r.W
    /\ UNCHANGED << mType, monster, search, now >>

\* the monster next to a tile that holds any of the other creatures
InitPush ==
    /\ mType = [MonsterType(Null, FACTION_DEFAULT, TRUE) EXCEPT
                   !.masterPos = DancePos, !.canPushCreatures = TRUE]
    /\ \E on \in SUBSET Others :
          creatures = [c \in AllCreatures |->
                          IF c = Self THEN Creature(DancePos, MaxHealth, mType.faction)
                          ELSE IF c \in on
                          THEN Creature(PushTile, MaxHealth,
                                        IF c = 1 THEN FACTION_PLAYER ELSE FACTION_DEFAULT)
                          ELSE Creature(Pos(DancePos.x, DancePos.y + DanceRange, 0), MaxHealth,
                                        IF c = 1 THEN FACTION_PLAYER ELSE FACTION_DEFAULT)]
    /\ monster = ActiveMonster(<< >>, << >>)
    /\ search = NoSearch
    /\ now = 0
    /\ tick = NoTick

PushEnter ==
    \E content \in Orders(OnTile(creatures, PushTile)), pushable \in SUBSET {2, 3} :
       PushCreatures(content, pushable)
PushLoop ==
    \E out \in PushOutcomes,
       dir \in {DIRECTION_NORTH, DIRECTION_WEST, DIRECTION_EAST, DIRECTION_SOUTH} :
       PushCreaturesLoop(out, dir)

NextPush == PushEnter \/ PushLoop

\* a call that was made is entered and its loop keeps running
SpecPush == InitPush /\ [][NextPush]_vars /\ WF_vars(PushEnter) /\ WF_vars(PushLoop)

-----------------------------------------------------------------------------
(* Movement: the direct geometric step *)

\* the function returns true with moveDirection set to dir
Step(dir) == [ret |-> TRUE, moveDirection |-> dir, assigned |-> TRUE]
\* the function returns without having written moveDirection
NoStep(ret, moveDirection) ==
    [ret |-> ret, moveDirection |-> moveDirection, assigned |-> FALSE]

\* one quadrant of the diagonal part: the target is diagonal to the monster;
\* a, b are the two directions away from it and diag the diagonal between
\* them, c, d the two directions towards it, (f1, x1) and (f2, x2) the pairs
\* of the last test; coin is the draw of boolean_random()
diagonalStep(m, W, pos, flee, coin, moveDirection, a, b, diag, c, d, f1, x1, f2, x2) ==
    LET wa == canWalkTo(m, W, pos, a)
        wb == canWalkTo(m, W, pos, b)
        wc == canWalkTo(m, W, pos, c)
        wd == canWalkTo(m, W, pos, d)
    IN IF wa /\ wb THEN Step(IF coin THEN a ELSE b)
       ELSE IF wa THEN Step(a)
       ELSE IF wb THEN Step(b)
       ELSE IF canWalkTo(m, W, pos, diag) THEN Step(diag)
       ELSE IF flee /\ wc /\ wd THEN Step(IF coin THEN c ELSE d)
       ELSE IF flee /\ wc THEN Step(c)
       ELSE IF flee /\ wd THEN Step(d)
       ELSE IF canWalkTo(m, W, pos, f1) /\ canWalkTo(m, W, pos, x1) THEN Step(f1)
       ELSE IF canWalkTo(m, W, pos, f2) /\ canWalkTo(m, W, pos, x2) THEN Step(f2)
       ELSE NoStep(TRUE, moveDirection)

\* one case of the straight part: away leads away from the target, p and q
\* are the sideways directions (p for an offset <= 0, q for an offset >= 0),
\* d1 and d2 the diagonals away with their sideways directions s1 and s2,
\* toward leads to the target
straightStep(m, W, pos, flee, coin, moveDirection, offset, away, p, q, s1, d1, s2, d2, toward) ==
    LET wp == canWalkTo(m, W, pos, p)
        wq == canWalkTo(m, W, pos, q)
        w1 == canWalkTo(m, W, pos, d1)
        w2 == canWalkTo(m, W, pos, d2)
    IN IF canWalkTo(m, W, pos, away) THEN Step(away)
       ELSE IF wp /\ wq /\ offset = 0 THEN Step(IF coin THEN p ELSE q)
       ELSE IF wp /\ offset <= 0 THEN Step(p)
       ELSE IF wq /\ offset >= 0 THEN Step(q)
       ELSE IF flee /\ wp /\ wq THEN Step(IF coin THEN p ELSE q)
       ELSE IF flee /\ wp THEN Step(p)
       ELSE IF flee /\ wq THEN Step(q)
       ELSE IF w1 \/ w2
       THEN IF w1 /\ w2 THEN Step(IF coin THEN d1 ELSE d2)
            ELSE IF canWalkTo(m, W, pos, s1) THEN Step(s1)
            ELSE IF w1 THEN Step(d1)
            ELSE IF canWalkTo(m, W, pos, s2) THEN Step(s2)
            ELSE Step(d2)
       ELSE IF flee /\ canWalkTo(m, W, pos, toward) THEN Step(toward)
       ELSE NoStep(TRUE, moveDirection)

\* the part of getDistanceStep after the diagonal quadrants
straightPart(m, W, pos, flee, coin, moveDirection, dx, dy, offsetx, offsety) ==
    IF dy > dx
    THEN IF offsety < 0
         THEN straightStep(m, W, pos, flee, coin, moveDirection, offsetx,
                           DIRECTION_NORTH, DIRECTION_WEST, DIRECTION_EAST,
                           DIRECTION_WEST, DIRECTION_NORTHWEST,
                           DIRECTION_EAST, DIRECTION_NORTHEAST, DIRECTION_SOUTH)
         ELSE straightStep(m, W, pos, flee, coin, moveDirection, offsetx,
                           DIRECTION_SOUTH, DIRECTION_WEST, DIRECTION_EAST,
                           DIRECTION_WEST, DIRECTION_SOUTHWEST,
                           DIRECTION_EAST, DIRECTION_SOUTHEAST, DIRECTION_NORTH)
    ELSE IF offsetx < 0
         THEN straightStep(m, W, pos, flee, coin, moveDirection, offsety,
                           DIRECTION_WEST, DIRECTION_NORTH, DIRECTION_SOUTH,
                           DIRECTION_NORTH, DIRECTION_NORTHWEST,
                           DIRECTION_SOUTH, DIRECTION_SOUTHWEST, DIRECTION_EAST)
         ELSE straightStep(m, W, pos, flee, coin, moveDirection, offsety,
                           DIRECTION_EAST, DIRECTION_NORTH, DIRECTION_SOUTH,
                           DIRECTION_SOUTH, DIRECTION_SOUTHEAST,
                           DIRECTION_NORTH, DIRECTION_NORTHEAST, DIRECTION_WEST)

\* the decision table of getDistanceStep, after the early returns
distanceTable(m, W, pos, flee, coin, moveDirection, dx, dy, offsetx, offsety) ==
    IF dx = dy /\ offsetx >= 1 /\ offsety >= 1
    THEN diagonalStep(m, W, pos, flee, coin, moveDirection,
                      DIRECTION_SOUTH, DIRECTION_EAST, DIRECTION_SOUTHEAST,
                      DIRECTION_NORTH, DIRECTION_WEST,
                      DIRECTION_WEST, DIRECTION_SOUTHWEST,
                      DIRECTION_NORTH, DIRECTION_NORTHEAST)
    ELSE IF dx = dy /\ offsetx <= -1 /\ offsety <= -1
    THEN diagonalStep(m, W, pos, flee, coin, moveDirection,
                      DIRECTION_WEST, DIRECTION_NORTH, DIRECTION_NORTHWEST,
                      DIRECTION_SOUTH, DIRECTION_EAST,
                      DIRECTION_SOUTH, DIRECTION_SOUTHWEST,
                      DIRECTION_EAST, DIRECTION_NORTHEAST)
    ELSE IF dx = dy /\ offsetx >= 1 /\ offsety <= -1
    THEN diagonalStep(m, W, pos, flee, coin, moveDirection,
                      DIRECTION_NORTH, DIRECTION_EAST, DIRECTION_NORTHEAST,
                      DIRECTION_SOUTH, DIRECTION_WEST,
                      DIRECTION_WEST, DIRECTION_NORTHWEST,
                      DIRECTION_SOUTH, DIRECTION_SOUTHEAST)
    ELSE IF dx = dy /\ offsetx <= -1 /\ offsety >= 1
    THEN diagonalStep(m, W, pos, flee, coin, moveDirection,
                      DIRECTION_WEST, DIRECTION_SOUTH, DIRECTION_SOUTHWEST,
                      DIRECTION_NORTH, DIRECTION_EAST,
                      DIRECTION_EAST, DIRECTION_SOUTHEAST,
                      DIRECTION_NORTH, DIRECTION_NORTHWEST)
    ELSE straightPart(m, W, pos, flee, coin, moveDirection, dx, dy, offsetx, offsety)

\* in: what the call draws and sees: the sight line to targetPos, the draw
\* of boolean_random() and the shuffled list of getRandomStep; moveDirection
\* is the caller's variable, arrived tells the return at the target distance
getDistanceStep(m, W, targetPos, moveDirection, flee, in) ==
    LET creaturePos == getPosition(W)
        dx == getDistanceX(creaturePos, targetPos)
        dy == getDistanceY(creaturePos, targetPos)
        distance == Max(dx, dy)
        offsetx == creaturePos.x - targetPos.x
        offsety == creaturePos.y - targetPos.y
        m1 == IF dx <= 1 /\ dy <= 1
              THEN IF m.stepDuration < 2 THEN [m EXCEPT !.stepDuration = @ + 1] ELSE m
              ELSE IF m.stepDuration > 0 THEN [m EXCEPT !.stepDuration = @ - 1]
              ELSE m
    IN IF ~flee /\ (distance > m.targetDistance \/ ~in.sightClear)
       THEN [m |-> m, arrived |-> FALSE, step |-> NoStep(FALSE, moveDirection)]
       ELSE IF ~flee /\ distance = m.targetDistance
       THEN [m |-> m, arrived |-> TRUE, step |-> NoStep(TRUE, moveDirection)]
       ELSE IF offsetx = 0 /\ offsety = 0
       THEN LET r == getRandomStep(m1, W, creaturePos, in.shuffled)
            IN [m |-> m1, arrived |-> FALSE,
                step |-> IF r.ret THEN Step(r.dir) ELSE NoStep(FALSE, moveDirection)]
       ELSE [m |-> m1, arrived |-> FALSE,
             step |-> distanceTable(m1, W, creaturePos, flee, in.coin,
                                    moveDirection, dx, dy, offsetx, offsety)]

DistanceInputs ==
    [sightClear : BOOLEAN, coin : BOOLEAN,
     shuffled : {<< DIRECTION_NORTH, DIRECTION_WEST, DIRECTION_EAST, DIRECTION_SOUTH >>,
                 << DIRECTION_SOUTH, DIRECTION_EAST, DIRECTION_WEST, DIRECTION_NORTH >>}]

\* a caller asks for the step towards or away from the followed creature,
\* with no direction in its variable
GetDistanceStep(flee, in) ==
    /\ Running
    /\ monster.followCreature # Null
    /\ LET r == getDistanceStep(monster, creatures,
                                creatures[monster.followCreature].pos, "none", flee, in)
       IN /\ Commit(r.m)
          /\ tick' = [op |-> "getDistanceStep", flee |-> flee, ret |-> r.step.ret,
                      arrived |-> r.arrived, assigned |-> r.step.assigned,
                      moveDirection |-> r.step.moveDirection,
                      walkable |-> r.step.assigned
                                   /\ canWalkTo(monster, creatures,
                                                getPosition(creatures),
                                                r.step.moveDirection)]
    /\ UNCHANGED << creatures, mType, search, now >>

\* the monster walks the step it was given
WalkDistanceStep ==
    /\ Running
    /\ tick.op = "getDistanceStep" /\ tick.ret /\ tick.assigned
    /\ getNextPosition(tick.moveDirection, getPosition(creatures)) \in monster.walkCache
    /\ creatures' = [creatures EXCEPT
                         ![Self].pos = getNextPosition(tick.moveDirection, @)]
    /\ tick' = NoTick
    /\ UNCHANGED << mType, monster, search, now >>

\* the four tiles next to pos and the four diagonal ones
Around(pos) == {Pos(pos.x + dx, pos.y + dy, 0) : dx \in {-1, 0, 1}, dy \in {-1, 0, 1}}

\* where the followed creature stands: on the monster's tile, on each side,
\* on each diagonal and off the axes
DistanceTargets ==
    {Pos(DancePos.x + d[1], DancePos.y + d[2], 0) :
        d \in {<< 0, 0 >>, << 0, -2 >>, << 0, 2 >>, << -2, 0 >>, << 2, 0 >>,
               << 1, 1 >>, << -1, -1 >>, << 1, -1 >>, << -1, 1 >>,
               << 1, 2 >>, << -2, 1 >>}}

\* walkable tiles around the monster: none, all, the sides, the diagonals
\* and single tiles
DistanceCaches ==
    {{}, Around(DancePos), Neighbours(DancePos), Around(DancePos) \ Neighbours(DancePos)}
        \cup {{t} : t \in Around(DancePos)}

InitDistance ==
    /\ \E distance \in {1, DanceRange} :
          mType = [MonsterType(Null, FACTION_DEFAULT, TRUE) EXCEPT
                      !.masterPos = DancePos, !.targetDistance = distance]
    /\ \E targetPos \in DistanceTargets :
          creatures = [c \in AllCreatures |->
                          CASE c = Self -> Creature(DancePos, MaxHealth, mType.faction)
                            [] c = 1 -> Creature(targetPos, MaxHealth, FACTION_PLAYER)
                            [] OTHER -> Expired]
    /\ \E cache \in DistanceCaches :
          monster = [ActiveMonster(<< 1 >>, << >>) EXCEPT
                        !.attackedCreature = 1, !.followCreature = 1,
                        !.walkCache = cache \cup {DancePos}]
    /\ search = NoSearch
    /\ now = 0
    /\ tick = NoTick

NextDistance ==
    \/ \E flee \in BOOLEAN, in \in DistanceInputs : GetDistanceStep(flee, in)
    \/ WalkDistanceStep

SpecDistance == InitDistance /\ [][NextDistance]_vars

----------------------------------------------------------------------------
(* Properties *)

\* C1: the monster is never in its own target list or friend list;
\* addTarget(self) returns false and changes nothing, addFriend(self)
\* changes nothing
NeverOwnTargetOrFriend ==
    /\ Self \notin Range(monster.targetList)
    /\ Self \notin monster.friendList
    /\ \A pushFront \in BOOLEAN :
          addTarget(monster, creatures, Self, pushFront) = Ret(monster, FALSE)
    /\ addFriend(monster, creatures, Self) = monster

\* both lists are in use, filled by additions at the front and the back
BothListsFilled ==
    /\ Len(monster.targetList) = 2
    /\ monster.friendList # {}

\* C2: after updateTargetList returns, every entry of the target list and
\* of the friend list exists, has health above zero and stands where the
\* monster can see it
RefreshedListsAreLive ==
    \A order \in Orders(Spectators(creatures)) :
       LET r == updateTargetList(monster, creatures, order)
       IN \A e \in Range(r.targetList) \cup r.friendList :
             /\ lock(creatures, e)
             /\ creatures[e].health > 0
             /\ canSee(creatures, creatures[e].pos)

NoDuplicates(tl) == \A i, j \in 1..Len(tl) : i # j => tl[i] # tl[j]

\* C3: addTarget of a member and removeTarget of a non-member return false
\* and change nothing, and no creature occurs twice in the target list
TargetSetOperationsIdempotent ==
    /\ \A c \in Refs \ {Null} :
          /\ c \in Range(monster.targetList) =>
                \A pushFront \in BOOLEAN :
                   addTarget(monster, creatures, c, pushFront) = Ret(monster, FALSE)
          /\ c \notin Range(monster.targetList) =>
                removeTarget(monster, creatures, c) = Ret(monster, FALSE)
    /\ NoDuplicates(monster.targetList)

\* the list holds two creatures, the later one put in front
TwoTargetsFrontInserted == monster.targetList = << 2, 1 >>

PlayersInTargetList == {i \in 1..Len(monster.targetList) : isPlayer(monster.targetList[i])}

\* C4: for a monster without a master and with a faction of its own, the
\* players-in-view counter is the number of players in the target list and
\* is never negative
CounterMatchesPlayers ==
    (mType.master = Null /\ mType.faction # FACTION_DEFAULT) =>
        /\ monster.totalPlayersOnScreen = Cardinality(PlayersInTargetList)
        /\ monster.totalPlayersOnScreen >= 0

Distance(c) == chebyshev(getPosition(creatures), creatures[c].pos)

\* C5: with candidates of the default faction only, the nearest strategy
\* passes a candidate at the least Chebyshev distance to selectTarget
NearestPicksMinimalDistance ==
    LET rl == resultList(monster, creatures)
    IN (rl # << >> /\ \A e \in Range(rl) : creatures[e].faction = FACTION_DEFAULT) =>
          \A e \in Range(rl) : Distance(searchNearest(creatures, rl)) <= Distance(e)

\* the candidates stand at distances 3, 5 and 2 in list order and the
\* nearest search has taken the third
NearestTookTheThird ==
    /\ search.searchType = TARGETSEARCH_NEAREST
    /\ monster.targetList = << 1, 2, 3 >>
    /\ resultList(monster, creatures) = << 1, 2, 3 >>
    /\ \A c \in Others : creatures[c].faction = FACTION_DEFAULT
    /\ << Distance(1), Distance(2), Distance(3) >> = << 3, 5, 2 >>
    /\ monster.attackedCreature = 3

\* C6: the default search takes nearest iff r <= wN, lowest health iff
\* wN < r <= wN+wH, highest damage iff wN+wH < r <= wN+wH+wD, else random
DefaultStrategyThresholds ==
    LET r == search.rnd
        wN == mType.strategiesTargetNearest
        wH == mType.strategiesTargetHealth
        wD == mType.strategiesTargetDamage
    IN search.rnd # 0 =>
          /\ search.searchType = TARGETSEARCH_NEAREST <=> r <= wN
          /\ search.searchType = TARGETSEARCH_HP <=> (wN < r /\ r <= wN + wH)
          /\ search.searchType = TARGETSEARCH_DAMAGE <=> (wN + wH < r /\ r <= wN + wH + wD)
          /\ search.searchType = TARGETSEARCH_RANDOM <=> r > wN + wH + wD

\* a roll between the first two thresholds has chosen lowest health
RollChoseHealth ==
    /\ search.searchType = TARGETSEARCH_HP
    /\ mType.strategiesTargetNearest = 30
    /\ search.rnd = 31
    /\ monster.attackedCreature = 2

\* the creatures a call has made the attacked or the followed creature
Established(r) ==
    {c \in Others : \/ r.attackedCreature = c /\ monster.attackedCreature # c
                    \/ r.followCreature = c /\ monster.followCreature # c}

PassesFilter(c) ==
    /\ isTarget(monster, creatures, c)
    /\ \/ monster.targetDistance = 1
       \/ canUseAttack(monster, creatures, getPosition(creatures), c)

\* C7 as claimed: every creature searchTarget establishes, by a strategy or
\* by the fallback, passes isTarget and can be attacked unless the target
\* distance is 1
SearchEstablishesOnlyCandidates ==
    \A t \in Strategies : \A idx \in Draws(t) :
       \A c \in Established(searchTarget(monster, creatures, t, 1, idx)) : PassesFilter(c)

\* C7 as amended: a creature established by a strategy passes isTarget and
\* can be attacked unless the target distance is 1; a creature established
\* by the fallback is a member of the target list that passes isTarget
SearchEstablishesTargets ==
    \A t \in Strategies : \A idx \in Draws(t) :
       LET rl == resultList(monster, creatures)
       IN /\ rl # << >> =>
                \A c \in Established(selectStrategyTarget(monster, creatures, t, rl, idx)) :
                   PassesFilter(c)
          /\ \A c \in Established(searchTarget(monster, creatures, t, 1, idx)) :
                /\ isTarget(monster, creatures, c)
                /\ c \in Range(monster.targetList)

\* a ranged monster attacks a creature it cannot reach, which the fallback
\* took after the follow of the strategy's candidate failed
FallbackTookUnreachable ==
    /\ search.searchType = TARGETSEARCH_NEAREST
    /\ monster.targetDistance # 1
    /\ monster.attackedCreature = 1
    /\ ~canUseAttack(monster, creatures, getPosition(creatures), 1)
    /\ resultList(monster, creatures) = << 2 >>
    /\ ~creatures[2].followOk

\* the entries of the target list that selectTarget accepts, in list order
Accepted ==
    SelectSeq(getTargetList(monster, creatures),
              LAMBDA e : selectTarget(monster, creatures, e).ret)

\* C8: whenever the strategy selects no candidate while selectTarget accepts
\* some entry of the target list, searchTarget selects the first such entry
\* and returns true
FallbackSelectsFirstAccepted ==
    \A t \in Strategies : \A idx \in Draws(t) :
       LET rl == resultList(monster, creatures)
           selected == rl # << >> /\ selectStrategyTarget(monster, creatures, t, rl, idx).ret
           r == searchTarget(monster, creatures, t, 1, idx)
       IN (~selected /\ Accepted # << >>) =>
             r.ret /\ r.followCreature = Accepted[1]

\* C9: selectTarget of a creature that fails isTarget or is not in the
\* target list returns false and leaves the attacked and the followed
\* creature as they are; a monster that is neither hostile nor a summon
\* never changes its attacked creature in selectTarget
SelectTargetRejects ==
    \A c \in Refs \ {Null} :
       LET r == selectTarget(monster, creatures, c)
       IN /\ (~isTarget(monster, creatures, c) \/ c \notin Range(monster.targetList)) =>
                /\ ~r.ret
                /\ r.attackedCreature = monster.attackedCreature
                /\ r.followCreature = monster.followCreature
          /\ (~mType.isHostile /\ mType.master = Null) =>
                r.attackedCreature = monster.attackedCreature

\* a monster that is not hostile follows creature 2 without attacking it,
\* while creature 1 is in the list and fails isTarget
PeacefulFollowsOnly ==
    /\ ~mType.isHostile
    /\ monster.followCreature = 2
    /\ monster.attackedCreature = Null
    /\ monster.targetList = << 1, 2 >>
    /\ ~isTarget(monster, creatures, 1)

\* C10: no registry operation called with a null reference dereferences it
NoNullDereference == ~monster.fault

\* C11: an ability that passes the cooldown check, other than a melee
\* ability checked under the extra-swing flag, has a period that is not
\* above the accumulator of the tick; with period 20 and interval 10 no
\* such ability passes at accumulator 10
CooldownRespectsPeriod ==
    tick.op = "doAttacking" =>
        \A p \in tick.passed :
           LET sb == mType.attackSpells[p.spell]
           IN (~sb.isMelee \/ ~p.extra) =>
                 /\ sb.speed <= tick.attackTicks
                 /\ (sb.speed = 20 /\ tick.interval = 10) => tick.attackTicks # 10

\* the second tick after a reset: the accumulator is 20 and the ranged
\* ability of period 20 passed the check and lost its chance roll
SecondTickEligible ==
    /\ tick.op = "doAttacking"
    /\ mType.attackSpells = << RangedSpell >>
    /\ tick.interval = 10
    /\ tick.attackTicks = 20
    /\ tick.passed = {[spell |-> 1, extra |-> FALSE]}
    /\ tick.cast = {}

\* C12: in a tick of the attack loop, if some configured attack ability
\* has a period greater than the accumulator, the accumulator is not reset
\* at the end of the tick
NoResetWhilePending ==
    (tick.op = "doAttacking" /\ tick.ran) =>
        ((\E i \in 1..Len(mType.attackSpells) :
             mType.attackSpells[i].speed > tick.attackTicks)
         => ~tick.resetTicks)

\* C13: for every summon entry of the template, the live summons of the
\* entry's name owned by the caster are at most min(maxSummons, count)
SummonsWithinEntryCap ==
    \A i \in 1..Len(mType.summons) :
       LET entry == mType.summons[i]
       IN /\ summonCount(monster, entry.name) <= mType.maxSummons
          /\ summonCount(monster, entry.name) <= entry.count

\* C14: the live summons of a caster are at most maxSummons, and a tick
\* creates a summon only for a caster that is not a summon and has a
\* follow path
SummonsWithinGlobalCap ==
    /\ Len(monster.m_summons) <= mType.maxSummons
    /\ (tick.op = "onThinkDefense" /\ tick.created # << >>) =>
          (~tick.isSummon /\ tick.hasFollowPath)

\* two entries were ready in one tick and the cap let only the first in
SecondEntryStoppedByCap ==
    /\ tick.op = "onThinkDefense"
    /\ mType.maxSummons = 2
    /\ Len(mType.summons) = 2
    /\ tick.summonsBefore = << "rat" >>
    /\ tick.created = << "rat" >>
    /\ tick.defenseTicks = 10
    /\ monster.m_summons = << "rat", "rat" >>
    /\ mType.summons[2].name = "bat"

\* the monster has a spawn anchor
HasAnchor == mType.spawnMonster /\ mType.masterPos # Origin
OnAnchor == getPosition(creatures) = mType.masterPos
Live == ~isRemoved(creatures, Self) /\ creatures[Self].health > 0
\* not a summon, no conditions, no targets
AtRest == ~isSummon(monster) /\ ~monster.conditions /\ monster.targetList = << >>

\* C15 as claimed: updateIdleStatus of a monster that is not a summon and
\* has no conditions and no targets makes it idle on its spawn anchor, and
\* off the anchor leaves it active with the walking-back flag set
IdleOnAnchorElseWalkBack ==
    LET r == updateIdleStatus(monster, creatures)
    IN (HasAnchor /\ AtRest) =>
          IF OnAnchor THEN r.isIdle ELSE ~r.isIdle /\ r.isWalkingBack

\* C15 as amended: the same for a monster that is on the map with health
\* above 0; for a removed monster or one at health 0 the idle flag and
\* the lists stay as they are, and the walking-back flag is still set off
\* the anchor
LiveIdleOnAnchorElseWalkBack ==
    LET r == updateIdleStatus(monster, creatures)
    IN (HasAnchor /\ AtRest) =>
          /\ Live => IF OnAnchor THEN r.isIdle ELSE ~r.isIdle /\ r.isWalkingBack
          /\ ~Live => /\ r.isIdle = monster.isIdle
                      /\ r.targetList = monster.targetList
                      /\ r.friendList = monster.friendList
                      /\ ~OnAnchor => r.isWalkingBack

\* an idle monster was re-evaluated off its anchor: it is active and walks back
WokenOffAnchor ==
    /\ tick.op = "updateIdleStatus"
    /\ HasAnchor /\ Live /\ ~OnAnchor
    /\ tick.before.isIdle /\ ~tick.before.isWalkingBack
    /\ ~tick.before.conditions /\ tick.before.targetList = << >>
    /\ ~isSummon(monster)
    /\ ~monster.isIdle /\ monster.isWalkingBack

\* an idle monster has empty lists and is not in the active-tick set
IdleClean(m) ==
    m.isIdle => (m.targetList = << >> /\ m.friendList = {} /\ ~m.inCreatureCheck)

\* C16 as claimed: in every reachable state in which a live monster is
\* idle, its target list and friend list are empty and it is not in the
\* active-tick set
IdleHasNoEntries == Live => IdleClean(monster)

\* C16 as amended: setIdle(true) of a live monster makes it idle, clears
\* both lists and takes it out of the active-tick set, and the handlers
\* that discover, lose and re-queue creatures keep an idle live monster's
\* lists empty; addTarget and addFriend alone insert without waking it
EnteringIdleClears ==
    Live =>
       /\ LET r == setIdle(monster, creatures, TRUE)
          IN r.isIdle /\ r.targetList = << >> /\ r.friendList = {} /\ ~r.inCreatureCheck
       /\ IdleClean(monster) =>
             /\ IdleClean(updateIdleStatus(monster, creatures))
             /\ \A c \in Others :
                   lock(creatures, c) =>
                      /\ \A pushFront \in BOOLEAN :
                            IdleClean(onCreatureFound(monster, creatures, c, pushFront))
                      /\ IdleClean(onCreatureLeave(monster, creatures, c))
                      /\ \A hasFollowPath \in BOOLEAN :
                            IdleClean(onFollowCreatureComplete(monster, creatures, c,
                                                               hasFollowPath))
             /\ \A order \in Orders(Spectators(creatures)) :
                   IdleClean(updateIdleStatus(updateTargetList(monster, creatures, order),
                                              creatures))

\* the monster had targets, lost them and went back to idle on its anchor
BackToIdle ==
    /\ monster.isIdle /\ monster.isWalkingBack
    /\ monster.targetList = << >> /\ monster.friendList = {}
    /\ ~monster.inCreatureCheck
    /\ monster.totalPlayersOnScreen > 0

\* C18: once another creature has died (its health is 0 and the death
\* sequence has taken it off the map), neither the target list nor the
\* friend list of the live monster holds a reference to it
DeadUnreachable ==
    Live =>
       \A c \in Others :
          (creatures[c].health <= 0 /\ creatures[c].life = "removed") =>
             c \notin Range(monster.targetList) \cup monster.friendList

\* C17: after death() the attacked-creature reference is null, the target
\* list, the friend list and the summon list are empty, and every creature
\* that was a summon before the call has health 0 and no master
DeathReleasesEverything ==
    LET r == death(monster, creatures)
    IN /\ r.m.attackedCreature = Null
       /\ r.m.targetList = << >>
       /\ r.m.friendList = {}
       /\ r.m.m_summons = << >>
       /\ \A c \in Range(monster.m_summons) :
             r.W[c].health = 0 /\ r.W[c].master = Null

\* a monster with a target, friends and two healthy summons has died
DiedWithTwoSummons ==
    /\ tick.op = "death"
    /\ monster.isDead
    /\ Len(tick.before.m_summons) = 2
    /\ tick.before.targetList # << >>
    /\ tick.before.friendList # {}
    /\ tick.before.attackedCreature # Null
    /\ \A c \in Range(tick.before.m_summons) :
          /\ tick.summons[c].health = MaxHealth /\ tick.summons[c].master = Self
          /\ creatures[c].health = 0 /\ creatures[c].master = Null
    /\ monster.m_summons = << >> /\ monster.friendList = {}

\* the steps of a tick that follow the spawn-range test
LaterSteps ==
    {"updateIdleStatus", "addEventWalk", "searchTarget", "onThinkTarget",
     "onThinkYell", "onThinkDefense", "onThinkSound"}

DanceStepWalkableSameDistance ==
    \A keepAttack \in BOOLEAN, keepDistance \in BOOLEAN :
       LET pos == getPosition(creatures)
           r == getDanceStep(monster, creatures, pos, keepAttack, keepDistance)
       IN r.ret =>
             \A i \in 1..Len(r.dirList) :
                /\ canWalkTo(monster, creatures, pos, r.dirList[i])
                /\ chebyshev(getNextPosition(r.dirList[i], pos),
                             creatures[monster.attackedCreature].pos)
                     = chebyshev(pos, creatures[monster.attackedCreature].pos)

\* the monster stands DanceRange tiles west of its target with the tiles to
\* the north and to the south in range and free, and was given one of them
DancedSideways ==
    /\ tick.op = "getDanceStep"
    /\ tick.ret
    /\ tick.keepAttack /\ tick.keepDistance
    /\ tick.dirList = << DIRECTION_NORTH, DIRECTION_SOUTH >>
    /\ tick.moveDirection = DIRECTION_SOUTH
    /\ getPosition(creatures) = DancePos
    /\ creatures[1].pos = Pos(DancePos.x + DanceRange, DancePos.y, 0)
    /\ monster.targetDistance = DanceRange

HasFollow == monster.followCreature # Null /\ lock(creatures, monster.followCreature)
Directions == {DIRECTION_NORTH, DIRECTION_SOUTH, DIRECTION_EAST, DIRECTION_WEST}
HasAttacked == monster.attackedCreature # Null /\ lock(creatures, monster.attackedCreature)
AttackedDistance == chebyshev(getPosition(creatures), creatures[monster.attackedCreature].pos)

ExactlyOneMovementMode ==
    \A in \in StepInputs :
       LET r == getNextStep(monster, creatures, in)
           follows == HasFollow /\ monster.hasFollowPath
       IN IF ~monster.isIdle /\ creatures[Self].health > 0
          THEN /\ Cardinality(r.modes) = 1
               /\ "follow" \in r.modes <=> follows
               /\ "walkBack" \in r.modes <=> (~follows /\ monster.isWalkingBack)
               /\ "random" \in r.modes <=> (~follows /\ ~monster.isWalkingBack)
          ELSE /\ r.modes = {}
               /\ ~r.ret
               /\ ~r.m.eventWalk
               /\ r.W = creatures
               /\ r.m = [monster EXCEPT !.eventWalk = FALSE]

\* a monster at health 0 with a creature to follow, a path and a pending
\* walk event was asked for its step: none was given and the event is gone
DeadMonsterStands ==
    /\ tick.op = "getNextStep"
    /\ tick.health = 0 /\ ~tick.wasIdle /\ tick.eventWalk
    /\ tick.modes = {} /\ ~tick.ret
    /\ monster.followCreature # Null /\ monster.hasFollowPath
    /\ monster.listWalkDir # << >>
    /\ ~monster.eventWalk

\* C23: a tick whose think hook is registered but cannot be invoked, the
\* script call stack being exhausted, does what a tick without a hook does
OverflowRunsDefaultThink ==
    \A in \in ThinkInputs :
       in.hook = "overflow" =>
          onThink(monster, creatures, ThinkInterval, in)
             = onThink(monster, creatures, ThinkInterval, [in EXCEPT !.hook = "none"])

\* C24: a yell task whose language-model request timed out, failed or came
\* back unparsable says nothing
FailedRequestIsSilent ==
    tick.op = "yellStore" /\ tick.reply # "response" => tick.said = "none"

\* C25: no yell task writes the yell accumulator between the read and the
\* write of another yell task's increment, so no increment is lost
YellIncrementNotLost ==
    \A k \in 1..Len(monster.yellTasks) :
       monster.yellTasks[k].loaded
          => monster.yellTasks[k].sum
                = monster.yellTicks + monster.yellTasks[k].interval

\* C26: a yell task that runs after its monster died says nothing and leaves
\* the yell accumulator alone
StaleYellDoesNothing ==
    tick.op = "yellStore" /\ (tick.health <= 0 \/ tick.isDead)
       => tick.said = "none" /\ monster.yellTicks = tick.yellTicks

\* Chebyshev distance of a candidate plus the offset of its own faction
factionRank(W, c) == chebyshev(getPosition(W), W[c].pos) + W[c].faction * 100

\* C27: the nearest strategy selects a candidate of minimum rank, the rank of
\* a candidate being its Chebyshev distance plus the offset of its own faction
NearestSelectsMinimumRank ==
    LET rl == resultList(monster, creatures)
    IN rl # << >> =>
          \A i \in 1..Len(rl) :
             factionRank(creatures, searchNearest(creatures, rl))
                <= factionRank(creatures, rl[i])

\* the melee abilities of the template
MeleeBlocks == {i \in 1..Len(mType.attackSpells) : mType.attackSpells[i].isMelee}

AttackDraws == [1..Len(mType.attackSpells) -> AttackRolls]

\* C28: a tick that found a melee ability out of range leaves the extra-swing
\* flag set, and under the flag every melee ability that has its target in
\* range passes canUseSpell, whatever the accumulator and the time since the
\* last melee attack
ExtraSwingAfterOutOfRange ==
    \A interval \in Intervals, rolls \in AttackDraws :
       LET r == doAttacking(monster, creatures, interval, rolls)
           targetPos == creatures[monster.attackedCreature].pos
           reach(i) == mType.attackSpells[i].range = 0
                       \/ chebyshev(getPosition(creatures), targetPos)
                             <= mType.attackSpells[i].range
       IN r.ran =>
             /\ r.far \cap MeleeBlocks # {} => r.m.extraMeleeAttack
             /\ monster.extraMeleeAttack /\ ~isFleeing(monster, creatures) =>
                   \A i \in MeleeBlocks :
                      reach(i) => i \in {e.spell : e \in r.passed}

\* the periods of the configured defense abilities and summon entries
DefensePeriods ==
    {mType.defenseSpells[i].speed : i \in 1..Len(mType.defenseSpells)}
        \cup {mType.summons[i].speed : i \in 1..Len(mType.summons)}

\* C29: a defense tick uses no defense ability and no summon entry whose
\* period exceeds the accumulator, and it resets the accumulator exactly when
\* no configured defense ability or summon entry has a period above it
DefenseResetIffNonePending ==
    tick.op = "onThinkDefense" =>
       /\ \A i \in tick.cast : mType.defenseSpells[i].speed <= tick.defenseTicks
       /\ \A k \in 1..Len(tick.created) :
             \E i \in 1..Len(mType.summons) :
                /\ mType.summons[i].name = tick.created[k]
                /\ mType.summons[i].speed <= tick.defenseTicks
       /\ tick.resetTicks <=> \A P \in DefensePeriods : P <= tick.defenseTicks

\* a non-summon monster with a change-target speed
Governed == mType.master = Null /\ mType.changeTargetSpeed > 0

Reconsidered == tick.op = "onThinkTarget" /\ tick.reconsidered

\* a reconsideration comes at least the change-target speed of tick time
\* after the one before, and not in a tick that began under a focus lock
ReconsiderationsSpaced ==
    Governed /\ Reconsidered =>
       /\ tick.seen => tick.gap >= mType.changeTargetSpeed
       /\ tick.focus <= 0

\* the governor of a summon, or under a change-target speed of 0, leaves
\* the monster as it is
UngovernedUntouched ==
    ~Governed =>
       \A interval \in {ThinkInterval, 2 * ThinkInterval}, roll \in {1, 100} :
          onThinkTarget(monster, creatures, interval, roll, 0).m = monster

\* C30: reconsiderations of a non-summon monster with change-target speed
\* S > 0 are at least S of tick time apart and never come in a tick that began
\* under a focus lock; once focus locks have ceased they recur forever; the
\* governor of a summon or under S = 0 changes nothing
GovernorPacesReconsiderations ==
    /\ [](ReconsiderationsSpaced /\ UngovernedUntouched)
    /\ (Governed /\ <>[](monster.challengeFocusDuration <= 0)) => []<>Reconsidered

\* a reconsideration that came exactly the change-target speed after the
\* one before
ReconsideredAgain ==
    /\ Governed /\ Reconsidered /\ tick.seen
    /\ monster.m_targetChangeCooldown = mType.changeTargetSpeed
    /\ tick.gap = mType.changeTargetSpeed
    /\ monster.attackedCreature = 1

\* C31: a reconsideration that searches uses the nearest strategy when the
\* monster's target distance is at most 1 and the default strategy otherwise
GovernorSearchByRange ==
    tick.op = "onThinkTarget" /\ tick.searchType # "none" =>
       tick.searchType = IF tick.targetDistance <= 1 THEN TARGETSEARCH_NEAREST
                         ELSE TARGETSEARCH_DEFAULT

\* C32: the dance step returns false when the monster is farther from the
\* attacked creature than its target distance, and at or inside the target
\* distance it returns a direction whenever one qualifies
DanceBailsWhenFarther ==
    HasAttacked =>
       \A keepAttack \in BOOLEAN, keepDistance \in BOOLEAN :
          LET r == getDanceStep(monster, creatures, getPosition(creatures),
                                keepAttack, keepDistance)
              free == getDanceStep_anyDistance(monster, creatures,
                                               getPosition(creatures),
                                               keepAttack, keepDistance)
          IN /\ AttackedDistance > monster.targetDistance => ~r.ret
             /\ AttackedDistance <= monster.targetDistance => r.ret = free.ret

\* C33: under keepAttack the direction the dance step returns leads to a
\* position from which an attack ability reaches the attacked creature
DanceKeepsAttack ==
    tick.op = "getDanceStep" /\ tick.ret /\ tick.keepAttack =>
       canUseAttack(monster, creatures,
                    getNextPosition(tick.moveDirection, getPosition(creatures)),
                    monster.attackedCreature)

\* C34: when the direct step returns true, other than for having arrived at
\* the target distance, it has set the direction, to one canWalkTo accepts
DistanceStepAssignsWalkable ==
    tick.op = "getDistanceStep" /\ tick.ret /\ ~tick.arrived =>
       tick.assigned /\ tick.walkable

IdleOnAnchor == monster.isIdle /\ getPosition(creatures) = mType.masterPos

\* walking back ends on the anchor and when no path is found
WalkBackCleared ==
    (/\ ~monster.isIdle /\ monster.isWalkingBack /\ monster.listWalkDir = << >>
     /\ ~HasFollow) =>
       \A in \in WalkBackInputs :
          /\ getPosition(creatures) = mType.masterPos
                => ~getNextStep(monster, creatures, in).m.isWalkingBack
          /\ ~getNextStep(monster, creatures, [in EXCEPT !.path = << >>]).m.isWalkingBack

\* C35: a monster with no targets and no conditions that is ticked and has
\* its way home found and walked ends up idle on its spawn anchor; walking
\* back is cleared on the anchor and when no path is found
WalksBackAndIdles == <>IdleOnAnchor /\ []WalkBackCleared

\* the monster has walked home from two tiles away and gone idle
WalkedHomeIdle ==
    /\ IdleOnAnchor
    /\ tick.op = "onThink" /\ tick.position = mType.masterPos /\ ~tick.wasIdle
    /\ monster.isWalkingBack

PushDone == tick.op = "pushCreatures" /\ tick.done

\* every pushable monster of the tile is on a neighbouring tile or at health 0
PushSettles ==
    PushDone =>
       \A k \in 1..Len(tick.initial) :
          LET c == tick.initial[k]
          IN (isMonster(c) /\ c \in tick.pushable) =>
                \/ creatures[c].pos \in Neighbours(tick.tile)
                \/ creatures[c].health = 0

\* the loop takes at most two iterations for each creature of the tile
PushBounded ==
    tick.op = "pushCreatures" => tick.iterations <= 2 * Len(tick.initial)

\* C36: pushCreatures ends for every tile content, also when a push reports
\* success with the monster still on the tile, and leaves every pushable
\* monster of the tile moved to a neighbouring tile or at health 0
PushCreaturesSettlesAndEnds == [](PushSettles /\ PushBounded) /\ <>PushDone

\* pushCreatures is done after a push that reported success left the monster
\* on the tile and another monster was moved away
PushedOneKilledOne ==
    /\ PushDone
    /\ tick.removeCount = 1 /\ Len(tick.initial) = 3 /\ Len(tick.content) = 2
    /\ tick.lastPushedMonster \in tick.pushable
    /\ creatures[tick.lastPushedMonster].pos = tick.tile
    /\ creatures[tick.lastPushedMonster].health = 0

\* an idle monster without a master that is alive and on the map
IdleAndLive ==
    /\ monster.isIdle /\ ~monster.fault
    /\ ~isSummon(monster) /\ getMaster(monster) = Null
    /\ ~isRemoved(creatures, Self) /\ creatures[Self].health > 0

\* a creature that was not a target has come into view and is a target now
OpponentEntered ==
    \E c \in Others :
       /\ c \notin Range(monster.targetList) /\ c \in Range(monster.targetList')
       /\ \/ creatures[c].life # "world" /\ creatures'[c].life = "world"
          \/ ~canSee(creatures, creatures[c].pos) /\ canSee(creatures', creatures'[c].pos)

HealthChanged == creatures'[Self].health # creatures[Self].health

WakesUp ==
    (IdleAndLive /\ (OpponentEntered \/ HealthChanged)) =>
       ~monster'.isIdle /\ monster'.inCreatureCheck

SetIdleSparesDeadAndRemoved ==
    (isRemoved(creatures, Self) \/ creatures[Self].health <= 0) =>
       \A idle \in BOOLEAN : setIdle(monster, creatures, idle) = monster

\* C37: an idle live monster without a master is active and registered for
\* ticking after an opponent that entered its view was added to its targets
\* and after each change of its health; setIdle leaves a removed monster and
\* one at health 0 or below as it is
IdleMonsterWakes == [][WakesUp]_vars /\ []SetIdleSparesDeadAndRemoved

\* an idle monster is active after a player appeared in its view
WokenByOpponent ==
    /\ tick.op = "onCreatureAppear" /\ tick.creature = 1
    /\ tick.before.isIdle /\ tick.before.targetList = << >>
    /\ getMaster(monster) = Null
    /\ creatures[Self].health > 0 /\ ~isRemoved(creatures, Self)
    /\ 1 \in Range(monster.targetList)
    /\ ~monster.isIdle /\ monster.inCreatureCheck

\* the decisions of a tick that follow the spawn test
ThinkDecisions ==
    {"addEventWalk", "searchTarget", "onThinkTarget", "onThinkYell", "onThinkDefense",
     "onThinkSound"}

\* C38: a tick that finds the monster's tile no longer spawnable removes the
\* monster and does nothing more: no walk is scheduled, no target is
\* searched and no target-change, yell, defense or sound step runs
UnspawnableTickOnlyRemoves ==
    (tick.op = "onThink" /\ tick.hook \in {"none", "passed"} /\ ~tick.canSpawn) =>
       /\ "removeCreature" \in tick.steps
       /\ tick.steps \cap ThinkDecisions = {}

\* C39: no creature is both in the friend set and in the target list of the
\* monster: discovery classifies a creature as a friend or as an opponent,
\* never as both, also when the monster is a player's summon
FriendsAndTargetsDisjoint == monster.friendList \cap Range(monster.targetList) = {}

\* a task waits in the queue or a worker is inside a yell task
PoolPending == tick.queue # << >> \/ \E w \in DOMAIN tick.worker : tick.worker[w] # "free"

\* C40: every yell task handed to the pool completes: the yell tasks that
\* wait for the language-model text never hold all workers while the request
\* they wait for is in the queue
YellTasksComplete == PoolPending ~> ~PoolPending

====
